---------------------------- MODULE Spec2Model ----------------------------
(***************************************************************************)
(* A model of the components of the product classification and            *)
(* recommendation pipeline:                                                *)
(*                                                                         *)
(*   - the taxonomy slug validator, validate_and_correct_slugs, and the   *)
(*     output writer RunManager.save_outputs (src/src/run_assign_cat.py), *)
(*     specifications SpecValidate and SpecSave;                          *)
(*   - the relevance scoring and recommendation engine                    *)
(*     (src/src/product_recommendation_engine.py), specifications         *)
(*     SpecScore, SpecEngine and SpecLoad;                                *)
(*   - the quiz input dataclass HealthQuizInput                           *)
(*     (src/src/health_quiz_models.py), specification SpecQuizInput;      *)
(*   - the results store and the Formbricks webhook                       *)
(*     (src/src/web_service.py), specifications SpecStorage and           *)
(*     SpecWebhook.                                                       *)
(*                                                                         *)
(* Python strings are modelled as sequences of one-character strings, so  *)
(* that strip, lower, replace, substring tests, tokenisation and difflib's *)
(* similarity ratio are computed the way the code computes them.          *)
(***************************************************************************)
EXTENDS Integers, Sequences, FiniteSets, TLC

VARIABLES
    \* ---- validate_and_correct_slugs ----
    taxonomy_tree,      \* the parsed taxonomy handed to the validator
    taxonomy_slugs,     \* the set of valid slugs handed to the validator
    total,              \* len(classifications), fixed when the call starts
    classifications,    \* the input records the loop has consumed so far
    corrected,          \* the corrected records appended so far
    validation_report,  \* the counters and the correction log
    v_pc,               \* "loop" while the for loop runs, "returned" afterwards
    outputs,            \* what RunManager.save_outputs wrote, <<>> before it ran
    \* ---- ProductScoringEngine.calculate_relevance_score ----
    sc_product, sc_quiz, sc_llm, sc_called, sc_score,
    \* ---- ProductRecommendationEngine ----
    catalog,            \* self.catalog
    url_template,       \* self.config['product_url_template']
    rq_quiz, rq_llm,    \* the arguments of the last recommend_products call
    max_recommendations, min_score_threshold,
    e_outcome,          \* "unbuilt", "idle", "returned" or "raised"
    recommendations,    \* the list the last call returned
    catalog_file,       \* what is at catalog_path when the engine is built
    \* ---- HealthQuizInput ----
    hq_args,            \* the constructor arguments
    hq_input,           \* the object after __post_init__
    \* ---- QuizResultsStorage and the Formbricks webhook ----
    results_by_email,   \* self.results_by_email: email hash -> record
    results_by_token,   \* self.results_by_token: token -> email hash
    now,                \* datetime.now(), in hours
    store_log,          \* the store_result calls made so far, with their time
    reply,              \* what the last lookup, webhook call or task gave back
    background_tasks    \* the tasks the webhook handed to BackgroundTasks

v_vars == <<taxonomy_tree, taxonomy_slugs, total, classifications, corrected,
            validation_report, v_pc, outputs>>
sc_vars == <<sc_product, sc_quiz, sc_llm, sc_called, sc_score>>
e_vars == <<catalog, url_template, rq_quiz, rq_llm, max_recommendations,
            min_score_threshold, e_outcome, recommendations, catalog_file>>
hq_vars == <<hq_args, hq_input>>
w_vars == <<results_by_email, results_by_token, now, store_log, reply,
            background_tasks>>
vars == <<v_vars, sc_vars, e_vars, hq_vars, w_vars>>

\* catalog_path.exists() is False
NoFile == [exists |-> FALSE, readable |-> FALSE, rows |-> <<>>]

\* No HealthQuizInput under construction, an empty results store.
StorageIdle ==
    /\ results_by_email = <<>> /\ results_by_token = <<>>
    /\ now = 0 /\ store_log = <<>> /\ reply = <<>>
    /\ background_tasks = <<>>

ServiceIdle == hq_args = <<>> /\ hq_input = <<>> /\ StorageIdle

-----------------------------------------------------------------------------
(* Python str operations on character sequences.                           *)

Min(a, b) == IF a < b THEN a ELSE b
Max(a, b) == IF a > b THEN a ELSE b

RECURSIVE SumSeq(_)
SumSeq(s) == IF s = <<>> THEN 0 ELSE Head(s) + SumSeq(Tail(s))

\* The characters of the model in code-point order (Python compares str by
\* code point).
CodeOrder ==
    <<" ", "&", "'", ",", "-", "0", "1", "2", "3", "4", "5", "6", "7", "8", "9",
      "A", "B", "C", "D", "E", "F", "G", "H", "I", "J", "K", "L", "M", "N", "O",
      "P", "Q", "R", "S", "T", "U", "V", "W", "X", "Y", "Z", "_",
      "a", "b", "c", "d", "e", "f", "g", "h", "i", "j", "k", "l", "m", "n", "o",
      "p", "q", "r", "s", "t", "u", "v", "w", "x", "y", "z">>

CodeOf ==
    [c \in {CodeOrder[k] : k \in 1..Len(CodeOrder)} |->
        CHOOSE k \in 1..Len(CodeOrder) : CodeOrder[k] = c]

CharCode(c) == CodeOf[c]

UpperChars == <<"A", "B", "C", "D", "E", "F", "G", "H", "I", "J", "K", "L", "M",
                "N", "O", "P", "Q", "R", "S", "T", "U", "V", "W", "X", "Y", "Z">>
LowerChars == <<"a", "b", "c", "d", "e", "f", "g", "h", "i", "j", "k", "l", "m",
                "n", "o", "p", "q", "r", "s", "t", "u", "v", "w", "x", "y", "z">>

UpperToLower ==
    [c \in {UpperChars[k] : k \in 1..Len(UpperChars)} |->
        LowerChars[CHOOSE k \in 1..Len(UpperChars) : UpperChars[k] = c]]

LowerChar(c) == IF c \in DOMAIN UpperToLower THEN UpperToLower[c] ELSE c

\* str.lower()
Lower(s) == [k \in 1..Len(s) |-> LowerChar(s[k])]

\* str.replace(old, new) for a one-character old
RECURSIVE Replace(_, _, _)
Replace(s, old, new) ==
    IF s = <<>> THEN <<>>
    ELSE (IF Head(s) = old THEN new ELSE <<Head(s)>>) \o Replace(Tail(s), old, new)

\* str.strip(): the whitespace of the model is the space character
RECURSIVE LStrip(_)
LStrip(s) == IF s # <<>> /\ Head(s) = " " THEN LStrip(Tail(s)) ELSE s
RECURSIVE RStrip(_)
RStrip(s) ==
    IF s # <<>> /\ s[Len(s)] = " " THEN RStrip(SubSeq(s, 1, Len(s) - 1)) ELSE s
Strip(s) == RStrip(LStrip(s))

\* sub in text
IsSubstr(sub, text) ==
    \E k \in 0..(Len(text) - Len(sub)) : \A j \in 1..Len(sub) : text[k + j] = sub[j]

\* Python's < on str
RECURSIVE StrLess(_, _)
StrLess(x, y) ==
    IF y = <<>> THEN FALSE
    ELSE IF x = <<>> THEN TRUE
    ELSE IF Head(x) = Head(y) THEN StrLess(Tail(x), Tail(y))
    ELSE CharCode(Head(x)) < CharCode(Head(y))


-----------------------------------------------------------------------------
(* difflib.SequenceMatcher and difflib.get_close_matches (the standard     *)
(* library routine validate_and_correct_slugs calls), with isjunk = None;  *)
(* the autojunk heuristic only applies to sequences of 200 or more items.  *)

\* The length of the common run a[i:], b[j:] (0-based) inside a[:ahi], b[:bhi].
RECURSIVE RunLen(_, _, _, _, _, _)
RunLen(a, b, i, j, ahi, bhi) ==
    IF i < ahi /\ j < bhi /\ a[i + 1] = b[j + 1]
    THEN 1 + RunLen(a, b, i + 1, j + 1, ahi, bhi)
    ELSE 0

\* SequenceMatcher.find_longest_match(alo, ahi, blo, bhi): the longest block,
\* of those the one starting earliest in a, of those the one starting earliest
\* in b; <<alo, blo, 0>> when nothing matches.
find_longest_match(a, b, alo, ahi, blo, bhi) ==
    LET pos == (alo..(ahi - 1)) \X (blo..(bhi - 1))
        runs == {<<p[1], p[2], RunLen(a, b, p[1], p[2], ahi, bhi)>> : p \in pos}
        sizes == {r[3] : r \in runs}
        k == CHOOSE n \in sizes : \A o \in sizes : o <= n
        longest == {r \in runs : r[3] = k}
        i == CHOOSE n \in {r[1] : r \in longest} : \A r \in longest : n <= r[1]
        j == CHOOSE n \in {r[2] : r \in {q \in longest : q[1] = i}} :
                 \A r \in {q \in longest : q[1] = i} : n <= r[2]
    IN  IF pos = {} \/ k = 0 THEN <<alo, blo, 0>> ELSE <<i, j, k>>

\* The sum of the sizes of SequenceMatcher.get_matching_blocks(): the longest
\* match, then the same to its left and to its right.
RECURSIVE MatchedChars(_, _, _, _, _, _)
MatchedChars(a, b, alo, ahi, blo, bhi) ==
    IF alo >= ahi \/ blo >= bhi THEN 0
    ELSE LET m == find_longest_match(a, b, alo, ahi, blo, bhi)
         IN  IF m[3] = 0 THEN 0
             ELSE m[3] + MatchedChars(a, b, alo, m[1], blo, m[2])
                       + MatchedChars(a, b, m[1] + m[3], ahi, m[2] + m[3], bhi)

\* SequenceMatcher.ratio() = 2.0 * matches / (len(a) + len(b)), kept as the
\* pair <<2 * matches, len(a) + len(b)>>; two empty sequences have ratio 1.
Ratio(a, b) ==
    IF Len(a) + Len(b) = 0 THEN <<1, 1>>
    ELSE <<2 * MatchedChars(a, b, 0, Len(a), 0, Len(b)), Len(a) + Len(b)>>

\* cutoff=0.8 of the get_close_matches calls, in tenths.
CutoffTenths == 8

RatioAtLeastCutoff(r) == 10 * r[1] >= CutoffTenths * r[2]
RatioLess(r, s) == r[1] * s[2] < s[1] * r[2]

\* get_close_matches(word, possibilities, n=1, cutoff=0.8): seq1 is the
\* possibility, seq2 the word; of the possibilities at or above the cutoff,
\* heapq.nlargest keeps the largest (ratio, possibility) pair.  <<>> when none.
get_close_matches(word, possibilities) ==
    LET ratios == {<<x, Ratio(x, word)>> : x \in possibilities}
        scored == {p \in ratios : RatioAtLeastCutoff(p[2])}
        top == CHOOSE p \in scored :
                   \A q \in scored :
                       \/ q = p
                       \/ RatioLess(q[2], p[2])
                       \/ ~RatioLess(p[2], q[2]) /\ StrLess(q[1], p[1])
    IN  IF scored = {} THEN <<>> ELSE <<top[1]>>

-----------------------------------------------------------------------------
(* The taxonomy XML: <taxon slug=... type=...> elements, each with a        *)
(* <title>; subcategories are nested in their primary's element.  A tree is *)
(* the sequence of its top-level taxon elements in document order.          *)

Taxon(slug, type, title, children) ==
    [slug |-> slug, type |-> type, title |-> title, children |-> children]

s_immune_support == <<"i","m","m","u","n","e","-","s","u","p","p","o","r","t">>
s_mushroom_immune == <<"m","u","s","h","r","o","o","m","-","i","m","m","u","n","e">>
s_stress_mood == <<"s","t","r","e","s","s","-","m","o","o","d">>
s_mood_balance == <<"m","o","o","d","-","b","a","l","a","n","c","e">>
s_sleep_aid == <<"s","l","e","e","p","-","a","i","d">>
s_seasonal == <<"s","e","a","s","o","n","a","l">>

t_Immune_Support == <<"I","m","m","u","n","e"," ","S","u","p","p","o","r","t">>
t_Immune_Mushrooms == <<"I","m","m","u","n","e"," ","M","u","s","h","r","o","o","m","s">>
t_Stress_and_Mood == <<"S","t","r","e","s","s"," ","&"," ","M","o","o","d">>
t_Mood_Balance == <<"M","o","o","d"," ","B","a","l","a","n","c","e">>
t_Womens_Sleep == <<"W","o","m","e","n","'","s"," ","S","l","e","e","p">>
t_Seasonal == <<"S","e","a","s","o","n","a","l">>
t_Stress_Mood == <<"S","t","r","e","s","s"," ","M","o","o","d">>

\* Two primaries with their subcategories; every taxon is typed.
TaxonomyPlain ==
    << Taxon(s_immune_support, "primary", t_Immune_Support,
             << Taxon(s_mushroom_immune, "subcategory", t_Immune_Mushrooms, <<>>) >>),
       Taxon(s_stress_mood, "primary", t_Stress_and_Mood,
             << Taxon(s_mood_balance, "subcategory", t_Mood_Balance, <<>>),
                Taxon(s_sleep_aid, "subcategory", t_Womens_Sleep, <<>>) >>) >>

\* The same with a taxon that is neither primary nor subcategory, and with a
\* subcategory whose title reads like the slug of another primary.
TaxonomyMixed ==
    << Taxon(s_immune_support, "primary", t_Immune_Support,
             << Taxon(s_mushroom_immune, "subcategory", t_Stress_Mood, <<>>) >>),
       Taxon(s_seasonal, "group", t_Seasonal, <<>>),
       Taxon(s_stress_mood, "primary", <<>>,
             << Taxon(s_mood_balance, "subcategory", t_Mood_Balance, <<>>),
                Taxon(s_sleep_aid, "subcategory", t_Womens_Sleep, <<>>) >>) >>

Taxonomies == {TaxonomyPlain, TaxonomyMixed}

\* root.findall('.//taxon') with a slug: the caller's taxonomy_slugs
RECURSIVE AllSlugs(_)
AllSlugs(tree) ==
    IF tree = <<>> THEN {}
    ELSE (IF Head(tree).slug # <<>> THEN {Head(tree).slug} ELSE {})
         \cup AllSlugs(Head(tree).children) \cup AllSlugs(Tail(tree))

\* taxonomy_tree.findall('.//taxon[@type="primary"]') with a slug
PrimaryElems(tree) ==
    SelectSeq(tree, LAMBDA e : e.type = "primary" /\ e.slug # <<>>)

\* primary.findall('.//taxon[@type="subcategory"]') with a slug
SubcategoryElems(primary) ==
    SelectSeq(primary.children, LAMBDA e : e.type = "subcategory" /\ e.slug # <<>>)

\* title.lower().replace("'", "").replace(" ", "-").replace("&", "").strip()
TitleSlug(title) ==
    Strip(Replace(Replace(Replace(Lower(title), "'", <<>>), " ", <<"-">>), "&", <<>>))

primary_categories(tree) ==
    {PrimaryElems(tree)[k].slug : k \in 1..Len(PrimaryElems(tree))}

\* The (subcategory, parent) assignments in the order the loops make them.
RECURSIVE ParentPairs(_)
ParentPairs(prims) ==
    IF prims = <<>> THEN <<>>
    ELSE LET subs == SubcategoryElems(Head(prims))
         IN  [k \in 1..Len(subs) |-> <<subs[k].slug, Head(prims).slug>>]
             \o ParentPairs(Tail(prims))

subcategories(tree) ==
    {ParentPairs(PrimaryElems(tree))[k][1] : k \in 1..Len(ParentPairs(PrimaryElems(tree)))}

\* The (title slug, slug) assignments in the order the loops make them.
TitleEntry(e) == IF e.title # <<>> THEN << <<TitleSlug(e.title), e.slug>> >> ELSE <<>>

RECURSIVE TitleEntries(_)
TitleEntries(elems) ==
    IF elems = <<>> THEN <<>> ELSE TitleEntry(Head(elems)) \o TitleEntries(Tail(elems))

RECURSIVE TitlePairs(_)
TitlePairs(prims) ==
    IF prims = <<>> THEN <<>>
    ELSE TitleEntry(Head(prims)) \o TitleEntries(SubcategoryElems(Head(prims)))
         \o TitlePairs(Tail(prims))

\* A dict built by assignments: a later assignment to a key replaces an earlier.
HasKey(pairs, key) == \E k \in 1..Len(pairs) : pairs[k][1] = key
Lookup(pairs, key) ==
    pairs[CHOOSE k \in 1..Len(pairs) :
              /\ pairs[k][1] = key
              /\ \A j \in (k + 1)..Len(pairs) : pairs[j][1] # key][2]

\* subcategory_to_parent left empty (line 307 dropped): every get gives None.
subcategory_to_parent_get_Unfilled(tree, slug) == <<>>

\* subcategory_to_parent.get(slug): <<>> stands for None
subcategory_to_parent_get(tree, slug) ==
    IF HasKey(ParentPairs(PrimaryElems(tree)), slug)
    THEN Lookup(ParentPairs(PrimaryElems(tree)), slug)
    ELSE <<>>

in_title_to_slug(tree, slug) == HasKey(TitlePairs(PrimaryElems(tree)), slug)
title_to_slug(tree, slug) == Lookup(TitlePairs(PrimaryElems(tree)), slug)

-----------------------------------------------------------------------------
(* The slug guesses and records the validator is run on.                    *)

w_title_stress_mood == <<"s","t","r","e","s","s","-","-","m","o","o","d">>
w_title_immune_mushrooms == <<"i","m","m","u","n","e","-","m","u","s","h","r","o","o","m","s">>
w_mood_balanse == <<"m","o","o","d","-","b","a","l","a","n","s","e">>
w_unknown_xyz == <<"u","n","k","n","o","w","n","-","x","y","z">>
w_padded_mood_balance == <<" ","m","o","o","d","-","b","a","l","a","n","c","e"," ">>
w_Immune_Support == <<"I","m","m","u","n","e","-","S","u","p","p","o","r","t">>
w_seasonel == <<"s","e","a","s","o","n","e","l">>

\* LLM guesses: a primary, a subcategory, titles used as slugs, a misspelling,
\* a wrong-case slug, an unknown slug, a padded slug, an untyped taxon's slug
\* and a misspelling of it.
BestSlugGuesses ==
    {s_immune_support, s_stress_mood, s_mood_balance, w_title_stress_mood,
     w_title_immune_mushrooms, w_mood_balanse, w_unknown_xyz,
     w_padded_mood_balance, w_Immune_Support, s_seasonal, w_seasonel}

LegacyGuesses ==
    {<<>>, s_stress_mood, s_mood_balance, w_mood_balanse, w_unknown_xyz, s_seasonal}

Record(id, best, cat, sub) ==
    [product_id |-> id, best_slug |-> best, category_slug |-> cat,
     sub_category_slug |-> sub]

\* Records in the new format carry a guess and either empty legacy fields
\* (as classify_products builds them) or stale ones; records in the old
\* format carry no best_slug.
RecordPool(id) ==
    {Record(id, b, <<>>, <<>>) : b \in BestSlugGuesses}
    \cup {Record(id, b, s_sleep_aid, s_immune_support) :
             b \in {s_immune_support, s_mood_balance, w_unknown_xyz, s_seasonal,
                    w_seasonel}}
    \cup {Record(id, <<>>, cat, sub) :
             cat \in LegacyGuesses, sub \in {<<>>, s_stress_mood, s_mood_balance}}
    \cup {Record(id, <<>>, <<>>, sub) :
             sub \in {w_mood_balanse, w_unknown_xyz, s_seasonal}}

\* get_close_matches is a pure function of the word and the slug set: its
\* values for the words and slug sets of the model, computed once.
CloseMatchTable ==
    [sl \in {AllSlugs(t) : t \in Taxonomies} |->
        [w \in {Strip(g) : g \in BestSlugGuesses \cup LegacyGuesses} |->
            get_close_matches(w, sl)]]

close_matches(word, slugs) == CloseMatchTable[slugs][word]


-----------------------------------------------------------------------------
(* validate_and_correct_slugs: one classification record at a time.         *)

EmptyReport(n) ==
    [total |-> n,
     valid_category |-> 0, valid_subcategory |-> 0,
     corrected_category |-> 0, corrected_subcategory |-> 0,
     invalid_category |-> 0, invalid_subcategory |-> 0,
     hierarchy_corrections |-> 0,
     corrections |-> <<>>]

Correction(c, field, old, new, reason) ==
    [product_id |-> c.product_id, field |-> field, old |-> old, new |-> new,
     reason |-> reason]

\* validation_report[counter] += 1
Count(rep, counter) == [rep EXCEPT ![counter] = @ + 1]
\* a validator that counts a correction without writing it to the log
Logged_NotWritten(rep, entry) == rep

\* validation_report['corrections'].append(entry)
Logged(rep, entry) == [rep EXCEPT !.corrections = Append(@, entry)]

\* PlaceCorrectedSlug that stores a subcategory without looking up its parent
\* (lines 354-355 and 374-375 with category_slug set to '').
PlaceCorrectedSlug_WithoutParent(cc, corrected_slug, tree) ==
    IF corrected_slug \in primary_categories(tree)
    THEN [cc EXCEPT !.category_slug = corrected_slug, !.sub_category_slug = <<>>]
    ELSE IF corrected_slug \in subcategories(tree)
    THEN [cc EXCEPT !.category_slug = <<>>, !.sub_category_slug = corrected_slug]
    ELSE cc

\* The assignment both repair branches of the best_slug path make for the
\* slug they resolved to; a slug that is neither primary nor subcategory
\* leaves the record as it came.
PlaceCorrectedSlug(cc, corrected_slug, tree) ==
    IF corrected_slug \in primary_categories(tree)
    THEN [cc EXCEPT !.category_slug = corrected_slug, !.sub_category_slug = <<>>]
    ELSE IF corrected_slug \in subcategories(tree)
    THEN [cc EXCEPT !.category_slug = subcategory_to_parent_get(tree, corrected_slug),
                    !.sub_category_slug = corrected_slug]
    ELSE cc

\* BestPrimary without the clearing of sub_category_slug (line 326 dropped).
BestPrimary_KeepsSubcategory(cc, rep, best_slug) ==
    [cc |-> [cc EXCEPT !.category_slug = best_slug],
     rep |-> Count(rep, "valid_category")]

\* lines 325-327: best_slug is a primary category
BestPrimary(cc, rep, best_slug) ==
    [cc |-> [cc EXCEPT !.category_slug = best_slug, !.sub_category_slug = <<>>],
     rep |-> Count(rep, "valid_category")]

\* lines 330-347: best_slug is a subcategory; its parent is added
BestSubcategory(c, cc, rep, best_slug, parent_slug) ==
    IF parent_slug # <<>> THEN
        [cc |-> [cc EXCEPT !.category_slug = parent_slug,
                           !.sub_category_slug = best_slug],
         rep |-> Count(Count(rep, "valid_category"), "valid_subcategory")]
    ELSE
        [cc |-> [cc EXCEPT !.category_slug = <<>>, !.sub_category_slug = <<>>],
         rep |-> Logged(Count(rep, "invalid_category"),
                        Correction(c, "best_slug", best_slug, <<>>,
                                   "subcategory_without_parent"))]

\* lines 350-365 and 370-385: best_slug repaired to corrected_slug
BestRepaired(c, cc, rep, best_slug, corrected_slug, reason, tree) ==
    [cc |-> PlaceCorrectedSlug(cc, corrected_slug, tree),
     rep |-> Logged(Count(rep, "corrected_category"),
                    Correction(c, "best_slug", best_slug, corrected_slug, reason))]

\* BestNoMatch that logs the failure but leaves the record's fields as they
\* came (lines 388-389 dropped).
BestNoMatch_KeepsFields(c, cc, rep, best_slug) ==
    [cc |-> cc,
     rep |-> Logged(Count(rep, "invalid_category"),
                    Correction(c, "best_slug", best_slug, <<>>, "no_match_found"))]

\* lines 388-397: no match found
BestNoMatch(c, cc, rep, best_slug) ==
    [cc |-> [cc EXCEPT !.category_slug = <<>>, !.sub_category_slug = <<>>],
     rep |-> Logged(Count(rep, "invalid_category"),
                    Correction(c, "best_slug", best_slug, <<>>, "no_match_found"))]

\* if best_slug: ... (the "new approach" block)
BestFuzzy(c, cc, rep, best_slug, matches, tree) ==
    IF matches # <<>>
    THEN BestRepaired(c, cc, rep, best_slug, matches[1], "fuzzy_match", tree)
    ELSE BestNoMatch(c, cc, rep, best_slug)

\* BestSlugBlock with the title map consulted before the slug sets (the test
\* of line 348 moved in front of those of lines 323 and 328).
BestSlugBlock_TitleFirst(c, cc, rep, tree, slugs) ==
    IF Strip(c.best_slug) = <<>> THEN [cc |-> cc, rep |-> rep]
    ELSE IF in_title_to_slug(tree, Strip(c.best_slug)) THEN
        BestRepaired(c, cc, rep, Strip(c.best_slug),
                     title_to_slug(tree, Strip(c.best_slug)),
                     "title_to_slug_mapping", tree)
    ELSE IF Strip(c.best_slug) \in primary_categories(tree) THEN
        BestPrimary(cc, rep, Strip(c.best_slug))
    ELSE IF Strip(c.best_slug) \in subcategories(tree) THEN
        BestSubcategory(c, cc, rep, Strip(c.best_slug),
                        subcategory_to_parent_get(tree, Strip(c.best_slug)))
    ELSE BestFuzzy(c, cc, rep, Strip(c.best_slug),
                   close_matches(Strip(c.best_slug), slugs), tree)

BestSlugBlock(c, cc, rep, tree, slugs) ==
    LET best_slug == Strip(c.best_slug)
    IN  IF best_slug = <<>> THEN [cc |-> cc, rep |-> rep]
        ELSE IF best_slug \in primary_categories(tree) THEN
            BestPrimary(cc, rep, best_slug)
        ELSE IF best_slug \in subcategories(tree) THEN
            BestSubcategory(c, cc, rep, best_slug,
                            subcategory_to_parent_get(tree, best_slug))
        ELSE IF in_title_to_slug(tree, best_slug) THEN
            BestRepaired(c, cc, rep, best_slug, title_to_slug(tree, best_slug),
                         "title_to_slug_mapping", tree)
        ELSE
            \* lines 367-397: matches = get_close_matches(best_slug, ...)
            BestFuzzy(c, cc, rep, best_slug, close_matches(best_slug, slugs), tree)

s_category_eq == <<"c","a","t","e","g","o","r","y","=">>
s_subcategory_eq == <<",", " ", "s","u","b","c","a","t","e","g","o","r","y","=">>

\* f"category={a}, subcategory={b}"
HierarchyText(a, b) == s_category_eq \o a \o s_subcategory_eq \o b

\* lines 452-476: matches = get_close_matches(cat_slug, ...)
LegacyFuzzy(c, cc, rep, cat_slug, matches) ==
    IF matches # <<>> THEN
        [cc |-> [cc EXCEPT !.category_slug = matches[1]],
         rep |-> Logged(Count(rep, "corrected_category"),
                        Correction(c, "category_slug", cat_slug, matches[1],
                                   "fuzzy_match"))]
    ELSE
        [cc |-> [cc EXCEPT !.category_slug = <<>>],
         rep |-> Logged(Count(rep, "invalid_category"),
                        Correction(c, "category_slug", cat_slug, <<>>,
                                   "no_match_found"))]

\* if cat_slug and not best_slug: ... (the "old approach" block)
LegacyCategoryBlock(c, cc, rep, tree, slugs) ==
    LET best_slug == Strip(c.best_slug)
        cat_slug == Strip(cc.category_slug)
        subcat_slug == Strip(cc.sub_category_slug)
        parent_slug == subcategory_to_parent_get(tree, cat_slug)
    IN  IF ~(cat_slug # <<>> /\ best_slug = <<>>) THEN [cc |-> cc, rep |-> rep]
        ELSE IF cat_slug \in primary_categories(tree) THEN
            [cc |-> cc, rep |-> Count(rep, "valid_category")]
        ELSE IF cat_slug \in subcategories(tree) THEN
            IF parent_slug # <<>> THEN
                [cc |-> [cc EXCEPT !.category_slug = parent_slug,
                                   !.sub_category_slug = cat_slug],
                 rep |-> Logged(Count(rep, "hierarchy_corrections"),
                                Correction(c, "hierarchy",
                                           HierarchyText(cat_slug, subcat_slug),
                                           HierarchyText(parent_slug, cat_slug),
                                           "subcategory_in_category_position"))]
            ELSE
                [cc |-> [cc EXCEPT !.category_slug = <<>>],
                 rep |-> Logged(Count(rep, "invalid_category"),
                                Correction(c, "category_slug", cat_slug, <<>>,
                                           "subcategory_without_parent"))]
        ELSE IF cat_slug \in slugs THEN
            [cc |-> cc, rep |-> Count(rep, "valid_category")]
        ELSE IF in_title_to_slug(tree, cat_slug) THEN
            [cc |-> [cc EXCEPT !.category_slug = title_to_slug(tree, cat_slug)],
             rep |-> Logged(Count(rep, "corrected_category"),
                            Correction(c, "category_slug", cat_slug,
                                       title_to_slug(tree, cat_slug),
                                       "title_to_slug_mapping"))]
        ELSE
            LegacyFuzzy(c, cc, rep, cat_slug, close_matches(cat_slug, slugs))

\* lines 513-535: matches = get_close_matches(subcat_slug, ...)
SubcategoryFuzzy(c, cc, rep, subcat_slug, matches) ==
    IF matches # <<>> THEN
        [cc |-> [cc EXCEPT !.sub_category_slug = matches[1]],
         rep |-> Logged(Count(rep, "corrected_subcategory"),
                        Correction(c, "sub_category_slug", subcat_slug, matches[1],
                                   "fuzzy_match"))]
    ELSE
        [cc |-> [cc EXCEPT !.sub_category_slug = <<>>],
         rep |-> Logged(Count(rep, "invalid_subcategory"),
                        Correction(c, "sub_category_slug", subcat_slug, <<>>,
                                   "no_match_found"))]

\* if subcat_slug: ... (the subcategory block, on the record as updated so far)
SubcategoryBlock(c, cc, rep, tree, slugs) ==
    LET subcat_slug == Strip(cc.sub_category_slug)
    IN  IF subcat_slug = <<>> THEN [cc |-> cc, rep |-> rep]
        ELSE IF subcat_slug \in subcategories(tree) THEN
            [cc |-> cc, rep |-> Count(rep, "valid_subcategory")]
        ELSE IF subcat_slug \in primary_categories(tree) THEN
            [cc |-> [cc EXCEPT !.sub_category_slug = <<>>],
             rep |-> Logged(Count(rep, "invalid_subcategory"),
                            Correction(c, "sub_category_slug", subcat_slug, <<>>,
                                       "primary_category_in_subcategory_position"))]
        ELSE IF subcat_slug \in slugs THEN
            [cc |-> cc, rep |-> Count(rep, "valid_subcategory")]
        ELSE IF in_title_to_slug(tree, subcat_slug) THEN
            [cc |-> [cc EXCEPT !.sub_category_slug = title_to_slug(tree, subcat_slug)],
             rep |-> Logged(Count(rep, "corrected_subcategory"),
                            Correction(c, "sub_category_slug", subcat_slug,
                                       title_to_slug(tree, subcat_slug),
                                       "title_to_slug_mapping"))]
        ELSE
            SubcategoryFuzzy(c, cc, rep, subcat_slug, close_matches(subcat_slug, slugs))

\* The body of `for c in classifications`: corrected_c = c.copy(), then the
\* three blocks in turn, each on the record and report the previous one left.
LegacyStep(c, a, tree, slugs) == LegacyCategoryBlock(c, a.cc, a.rep, tree, slugs)

SubcategoryStep(c, b, tree, slugs) == SubcategoryBlock(c, b.cc, b.rep, tree, slugs)

ValidateOne(c, rep, tree, slugs) ==
    SubcategoryStep(c, LegacyStep(c, BestSlugBlock(c, c, rep, tree, slugs), tree, slugs),
                    tree, slugs)

-----------------------------------------------------------------------------
\* The largest batch validated.
MaxBatch == 2

-----------------------------------------------------------------------------
(* The validator as a state machine: the call starts with an empty report,  *)
(* each loop iteration validates the next record, and the call returns      *)
(* when the batch is consumed.                                              *)

EngineUnused ==
    /\ sc_product = <<>> /\ sc_quiz = <<>> /\ sc_llm = <<>>
    /\ sc_called = FALSE /\ sc_score = 0
    /\ catalog = <<>> /\ url_template = <<>>
    /\ rq_quiz = <<>> /\ rq_llm = <<>>
    /\ max_recommendations = 0 /\ min_score_threshold = 0
    /\ e_outcome = "idle" /\ recommendations = <<>>
    /\ catalog_file = NoFile

EngineIdle == EngineUnused /\ ServiceIdle

ValidatorIdle ==
    /\ taxonomy_tree = <<>> /\ taxonomy_slugs = {}
    /\ total = 0 /\ classifications = <<>> /\ corrected = <<>>
    /\ validation_report = EmptyReport(0) /\ v_pc = "returned"
    /\ outputs = <<>>

InitValidate ==
    /\ taxonomy_tree \in Taxonomies
    /\ taxonomy_slugs = AllSlugs(taxonomy_tree)
    /\ total \in 0..MaxBatch
    /\ classifications = <<>>
    /\ corrected = <<>>
    /\ validation_report = EmptyReport(total)
    /\ v_pc = "loop"
    /\ outputs = <<>>
    /\ EngineIdle

\* Validated without the append for a record that ends with both fields
\* empty (the record is dropped from the output).
Validated_DropsCleared(r) ==
    /\ corrected' = IF r.cc.category_slug = <<>> /\ r.cc.sub_category_slug = <<>>
                    THEN corrected ELSE Append(corrected, r.cc)
    /\ validation_report' = r.rep

\* One iteration of `for c in classifications` (lines 315-537).
Validated(r) ==
    /\ corrected' = Append(corrected, r.cc)
    /\ validation_report' = r.rep

ValidateRecord(c) ==
    /\ v_pc = "loop"
    /\ Len(corrected) < total
    /\ classifications' = Append(classifications, c)
    /\ Validated(ValidateOne(c, validation_report, taxonomy_tree, taxonomy_slugs))
    /\ UNCHANGED <<taxonomy_tree, taxonomy_slugs, total, v_pc, outputs, sc_vars,
                   e_vars, hq_vars, w_vars>>

\* return corrected, validation_report (line 539)
ValidateReturn ==
    /\ v_pc = "loop"
    /\ Len(corrected) = total
    /\ v_pc' = "returned"
    /\ UNCHANGED <<taxonomy_tree, taxonomy_slugs, total, classifications, corrected,
                   validation_report, outputs, sc_vars, e_vars, hq_vars, w_vars>>

NextValidate ==
    \/ \E c \in RecordPool(Len(classifications) + 1) : ValidateRecord(c)
    \/ ValidateReturn

SpecValidate == InitValidate /\ [][NextValidate]_vars

-----------------------------------------------------------------------------
(* RunManager.save_outputs (lines 122-185) on the validator's result.        *)

\* line 141: both fields empty once stripped
IsUnassigned(c) ==
    Strip(c.category_slug) = <<>> /\ Strip(c.sub_category_slug) = <<>>

\* lines 137-144
Assigned(records) == SelectSeq(records, LAMBDA c : ~IsUnassigned(c))
Unassigned(records) == SelectSeq(records, IsUnassigned)

\* lines 162-167: the reason of the first correction logged for the product
UnassignedReason(c, corrections) ==
    IF \E k \in 1..Len(corrections) : corrections[k].product_id = c.product_id
    THEN corrections[CHOOSE k \in 1..Len(corrections) :
                        /\ corrections[k].product_id = c.product_id
                        /\ \A j \in 1..(k - 1) :
                               corrections[j].product_id # c.product_id].reason
    ELSE "no_category_assigned"

\* lines 147-152: a row of classifications.csv (the fields of the record
\* among the file's columns)
AssignedRow(c) ==
    [product_id |-> c.product_id, category_slug |-> c.category_slug,
     sub_category_slug |-> c.sub_category_slug]

\* lines 169-174: a row of unassigned_products.csv
UnassignedRow(c, corrections) ==
    [product_id |-> c.product_id, reason |-> UnassignedReason(c, corrections)]

\* lines 137-182: the two files and the statistics added to the report
Saved(assigned, unassigned, corrections) ==
    [classifications_csv |-> [k \in 1..Len(assigned) |-> AssignedRow(assigned[k])],
     unassigned_products_csv |->
         [k \in 1..Len(unassigned) |-> UnassignedRow(unassigned[k], corrections)],
     assigned_count |-> Len(assigned),
     unassigned_count |-> Len(unassigned),
     unassigned_product_ids |->
         [k \in 1..Len(unassigned) |-> unassigned[k].product_id]]

save_outputs(records, report) ==
    Saved(Assigned(records), Unassigned(records), report.corrections)

\* run_manager.save_outputs(classifications, ..., validation_report, ...)
\* (line 801) with what classify_products got from the validator
SaveOutputs ==
    /\ v_pc = "returned"
    /\ v_pc' = "saved"
    /\ outputs' = save_outputs(corrected, validation_report)
    /\ UNCHANGED <<taxonomy_tree, taxonomy_slugs, total, classifications, corrected,
                   validation_report, sc_vars, e_vars, hq_vars, w_vars>>

NextSave == NextValidate \/ SaveOutputs

SpecSave == InitValidate /\ [][NextSave]_vars

\* The same call when it is not suspended: the function body has no await and
\* no blocking call, so a loop iteration or the return that can run does run.
SpecValidateLive == SpecValidate /\ WF_vars(NextValidate)

-----------------------------------------------------------------------------
(* CategoryMatcher: the lookup tables and their two accessors.  Numbers of  *)
(* the scoring code are kept in fixed point: sub-scores in sixtieths,       *)
(* weights in tenths, so that 0.7 * 5.0, rating / 5.0 * 4.0 and             *)
(* matches / len(terms) * 10.0 are whole numbers for the inputs below.      *)

\* self.category_mappings: the rows for three of the twenty health areas.
category_mappings ==
    << <<<<"i","m","m","u","n","e","_","s","u","p","p","o","r","t">>,
         <<<<"i","m","m","u","n","e">>, <<"i","m","m","u","n","i","t","y">>, <<"d","e","f","e","n","s","e">>, <<"e","l","d","e","r","b","e","r","r","y">>, <<"e","c","h","i","n","a","c","e","a">>>> >>,
       <<<<"d","i","g","e","s","t","i","v","e","_","h","e","a","l","t","h">>,
         <<<<"d","i","g","e","s","t","i","v","e">>, <<"s","t","o","m","a","c","h">>, <<"g","u","t">>, <<"d","i","g","e","s","t","i","o","n">>, <<"p","r","o","b","i","o","t","i","c","s">>>> >>,
       <<<<"s","t","r","e","s","s","_","r","e","l","i","e","f">>,
         <<<<"s","t","r","e","s","s">>, <<"a","n","x","i","e","t","y">>, <<"c","a","l","m">>, <<"r","e","l","a","x","a","t","i","o","n">>, <<"a","d","a","p","t","o","g","e","n">>>> >> >>

\* self.ingredient_benefits: the first six rows, in the dict's order.
ingredient_benefits ==
    << <<<<"t","u","r","m","e","r","i","c">>, <<<<"i","n","f","l","a","m","m","a","t","i","o","n">>, <<"j","o","i","n","t","_","h","e","a","l","t","h">>, <<"a","n","t","i","o","x","i","d","a","n","t">>>> >>,
       <<<<"g","i","n","g","e","r">>, <<<<"d","i","g","e","s","t","i","v","e","_","h","e","a","l","t","h">>, <<"n","a","u","s","e","a">>, <<"i","n","f","l","a","m","m","a","t","i","o","n">>>> >>,
       <<<<"e","c","h","i","n","a","c","e","a">>, <<<<"i","m","m","u","n","e","_","s","u","p","p","o","r","t">>, <<"r","e","s","p","i","r","a","t","o","r","y","_","h","e","a","l","t","h">>>> >>,
       <<<<"e","l","d","e","r","b","e","r","r","y">>, <<<<"i","m","m","u","n","e","_","s","u","p","p","o","r","t">>, <<"a","n","t","i","o","x","i","d","a","n","t">>>> >>,
       <<<<"a","s","h","w","a","g","a","n","d","h","a">>, <<<<"s","t","r","e","s","s","_","r","e","l","i","e","f">>, <<"e","n","e","r","g","y","_","v","i","t","a","l","i","t","y">>, <<"a","d","a","p","t","o","g","e","n">>>> >>,
       <<<<"c","h","a","m","o","m","i","l","e">>, <<<<"s","l","e","e","p","_","s","u","p","p","o","r","t">>, <<"s","t","r","e","s","s","_","r","e","l","i","e","f">>, <<"d","i","g","e","s","t","i","v","e","_","h","e","a","l","t","h">>>> >> >>

\* x in list
InList(x, list) == \E k \in 1..Len(list) : list[k] = x

\* get_category_keywords: category_mappings.get(health_category.lower(), [])
get_category_keywords(health_category) ==
    IF HasKey(category_mappings, Lower(health_category))
    THEN Lookup(category_mappings, Lower(health_category))
    ELSE <<>>

\* key.lower().replace('_', ' ') of the k-th key of ingredient_benefits
key_normalized ==
    [k \in 1..Len(ingredient_benefits) |->
        Replace(Lower(ingredient_benefits[k][1]), "_", <<" ">>)]

\* get_ingredient_benefits: the benefits of the first key that contains the
\* ingredient or is contained in it, underscores read as spaces; [] if none.
get_ingredient_benefits(ingredient) ==
    LET ingredient_lower == Replace(Lower(ingredient), "_", <<" ">>)
        hit(k) == \/ IsSubstr(key_normalized[k], ingredient_lower)
                  \/ IsSubstr(ingredient_lower, key_normalized[k])
        hits == {k \in 1..Len(ingredient_benefits) : hit(k)}
    IN  IF hits = {} THEN <<>>
        ELSE ingredient_benefits[CHOOSE k \in hits : \A j \in hits : k <= j][2]

\* ' '.join(parts)
RECURSIVE JoinSpace(_)
JoinSpace(parts) ==
    IF parts = <<>> THEN <<>>
    ELSE IF Len(parts) = 1 THEN parts[1]
    ELSE parts[1] \o <<" ">> \o JoinSpace(Tail(parts))

\* \w of the regular expression
WordChars ==
    {LowerChars[k] : k \in 1..Len(LowerChars)}
    \cup {UpperChars[k] : k \in 1..Len(UpperChars)}
    \cup {"0", "1", "2", "3", "4", "5", "6", "7", "8", "9", "_"}

IsWordChar(c) == c \in WordChars

\* re.findall(r'\b\w+\b', text): the maximal runs of word characters
RECURSIVE FindWords(_, _)
FindWords(text, word) ==
    IF text = <<>> THEN (IF word = <<>> THEN <<>> ELSE <<word>>)
    ELSE IF IsWordChar(Head(text)) THEN FindWords(Tail(text), Append(word, Head(text)))
    ELSE (IF word = <<>> THEN <<>> ELSE <<word>>) \o FindWords(Tail(text), <<>>)

stop_words ==
    {<<"t","h","e">>, <<"a","n","d">>, <<"o","r">>, <<"b","u","t">>, <<"i","n">>, <<"o","n">>, <<"a","t">>, <<"t","o">>, <<"f","o","r">>,
     <<"o","f">>, <<"w","i","t","h">>, <<"b","y">>, <<"a">>, <<"a","n">>}

\* _extract_key_terms: the words longer than 3 characters that are no stop word
_extract_key_terms(text) ==
    SelectSeq(FindWords(Lower(text), <<>>),
              LAMBDA word : Len(word) > 3 /\ word \notin stop_words)

-----------------------------------------------------------------------------
(* ProductScoringEngine.                                                    *)

\* The fixed-point unit of a sub-score: 1.0 is Unit.
Unit == 60
\* The returned relevance score: 1.0 is ScoreOne.
ScoreOne == 6000

\* A product: rating is [given |-> FALSE] for None.  An empty string stands
\* for an absent (None) optional string: both are falsy wherever the code
\* tests them.
Product(id, title, description, categories, ingredients, tags, in_stock, rating, review_count, slug) ==
    [id |-> id, title |-> title, description |-> description,
     categories |-> categories, ingredients |-> ingredients, tags |-> tags,
     in_stock |-> in_stock, rating |-> rating, review_count |-> review_count,
     slug |-> slug]

NoRating == [given |-> FALSE, tenths |-> 0]
Rating(tenths) == [given |-> TRUE, tenths |-> tenths]

QuizInput(description, primary, secondary) ==
    [health_issue_description |-> description,
     primary_health_area |-> primary,
     secondary_health_area |-> secondary]

\* sum(1 for keyword in keywords if keyword in text)
RECURSIVE CountIn(_, _)
CountIn(keywords, text) ==
    IF keywords = <<>> THEN 0
    ELSE (IF IsSubstr(Head(keywords), text) THEN 1 ELSE 0) + CountIn(Tail(keywords), text)

\* The body of `for health_category, weight in categories_to_check`
\* (lines 190-202); weight in tenths.
CategoryPoints(product, health_category, weight) ==
    LET keywords == get_category_keywords(health_category)
        tag_hits ==
            Cardinality({k \in 1..Len(product.categories) :
                \E j \in 1..Len(keywords) :
                    IsSubstr(keywords[j], Lower(product.categories[k]))})
        combined_text == Lower(product.title \o <<" ">> \o product.description)
        keyword_matches == CountIn(keywords, combined_text)
    IN  tag_hits * 5 * weight * (Unit \div 10)
        + (IF keyword_matches > 0
           THEN Min(3, keyword_matches) * weight * (Unit \div 10)
           ELSE 0)

\* _score_category_match: <<score, max_score>>
_score_category_match(product, quiz_input) ==
    << (IF quiz_input.primary_health_area # <<>>
        THEN CategoryPoints(product, quiz_input.primary_health_area, 10) ELSE 0)
       + (IF quiz_input.secondary_health_area # <<>>
          THEN CategoryPoints(product, quiz_input.secondary_health_area, 7) ELSE 0),
       10 * Unit >>

\* The body of `for ingredient in product.ingredients` (lines 221-232)
IngredientPoints(ingredient, quiz_input, llm_herbs) ==
    LET benefits == get_ingredient_benefits(ingredient)
    IN  (IF quiz_input.primary_health_area # <<>>
            /\ InList(quiz_input.primary_health_area, benefits)
         THEN 3 * Unit ELSE 0)
        + (IF quiz_input.secondary_health_area # <<>>
              /\ InList(quiz_input.secondary_health_area, benefits)
           THEN 2 * Unit ELSE 0)
        + Cardinality({k \in 1..Len(llm_herbs) :
                          IsSubstr(Lower(llm_herbs[k]), Lower(ingredient))}) * 2 * Unit

\* _score_ingredient_match with max_score counted per ingredient.
_score_ingredient_match_PerIngredientMax(product, quiz_input, llm_herbs) ==
    << Min(SumSeq([k \in 1..Len(product.ingredients) |->
                      IngredientPoints(product.ingredients[k], quiz_input, llm_herbs)]),
           10 * Unit * Max(1, Len(product.ingredients))),
       10 * Unit * Max(1, Len(product.ingredients)) >>

\* _score_ingredient_match: <<min(score, max_score), max_score>>; llm_herbs is
\* llm_context["herbal_categories"], or [] without a context
_score_ingredient_match(product, quiz_input, llm_herbs) ==
    << Min(SumSeq([k \in 1..Len(product.ingredients) |->
                      IngredientPoints(product.ingredients[k], quiz_input, llm_herbs)]),
           10 * Unit),
       10 * Unit >>

\* _score_text_similarity: <<overlap_ratio * max_score, max_score>>
_score_text_similarity(product, quiz_input) ==
    LET issue_words == _extract_key_terms(quiz_input.health_issue_description)
        product_text == Lower(product.title \o <<" ">> \o product.description
                              \o <<" ">> \o JoinSpace(product.tags))
        matches == CountIn(issue_words, product_text)
    IN  << (IF Len(issue_words) > 0
            THEN (matches * 10 * Unit) \div Len(issue_words) ELSE 0),
           10 * Unit >>

\* math.log10 of a power of ten (the review counts of the model)
RECURSIVE Log10(_)
Log10(n) == IF n < 10 THEN 0 ELSE 1 + Log10(n \div 10)

\* _score_quality_factors: <<score, max_score>>
_score_quality_factors(product) ==
    << (IF product.in_stock THEN 3 * Unit ELSE 0)
       + (IF product.rating.given /\ product.rating.tenths # 0
          THEN (product.rating.tenths * 4 * Unit) \div (5 * 10) ELSE 0)
       + (IF product.review_count > 0
          THEN Min(3 * Unit, Log10(product.review_count) * Unit) ELSE 0),
       10 * Unit >>

\* calculate_relevance_score: the weights 0.4, 0.3, 0.2, 0.1 in tenths
calculate_relevance_score(product, quiz_input, llm_herbs) ==
    LET category == _score_category_match(product, quiz_input)
        ingredient == _score_ingredient_match(product, quiz_input, llm_herbs)
        text == _score_text_similarity(product, quiz_input)
        quality == _score_quality_factors(product)
        score == category[1] * 4 + ingredient[1] * 3 + text[1] * 2 + quality[1] * 1
        max_score == category[2] * 4 + ingredient[2] * 3 + text[2] * 2 + quality[2] * 1
    IN  IF max_score > 0 THEN (score * ScoreOne) \div max_score ELSE 0

-----------------------------------------------------------------------------
(* The products, quiz inputs and LLM contexts the scorer is run on.         *)

\* The longest category list and ingredient list of a scored product.
MaxCategories == 2
MaxIngredients == 2

\* All sequences over S of length at most n.
RECURSIVE SeqsUpTo(_, _)
SeqsUpTo(S, n) ==
    IF n = 0 THEN {<<>>}
    ELSE SeqsUpTo(S, n - 1)
         \cup {Append(s, x) : s \in {q \in SeqsUpTo(S, n - 1) : Len(q) = n - 1}, x \in S}

CategoryTags == {<<"I","m","m","u","n","e","_","S","u","p","p","o","r","t">>, <<"d","i","g","e","s","t","i","v","e","_","h","e","a","l","t","h">>}
IngredientNames == {<<"e","c","h","i","n","a","c","e","a">>, <<"G","i","n","g","e","r"," ","R","o","o","t">>}

\* title, description, tags
ProductTexts ==
    { <<<<"I","m","m","u","n","e"," ","T","e","a">>, <<"d","e","f","e","n","s","e"," ","f","o","r"," ","t","h","e"," ","g","u","t">>, <<<<"i","m","m","u","n","e">>>> >>,
      <<<<"P","l","a","i","n"," ","O","i","l">>, <<"c","a","r","r","i","e","r"," ","o","i","l">>, <<>> >> }

\* in_stock, rating, review_count
QualityProfiles ==
    { <<FALSE, NoRating, 0>>, <<TRUE, Rating(0), 1>>,
      <<TRUE, Rating(45), 10>>, <<TRUE, Rating(50), 10000>> }

ScoredProducts ==
    { Product(<<"P">>, x[1], x[2], cats, ingr, x[3], q[1], q[2], q[3], <<"p">>) :
        x \in ProductTexts, q \in QualityProfiles,
        cats \in SeqsUpTo(CategoryTags, MaxCategories),
        ingr \in SeqsUpTo(IngredientNames, MaxIngredients) }

\* health_issue_description: two, three and no key terms
Descriptions == {<<"i","m","m","u","n","e"," ","d","e","f","e","n","s","e"," ","t","e","a"," ","f","o","r"," ","t","h","e"," ","g","u","t">>, <<"i","m","m","u","n","e"," ","s","l","e","e","p"," ","w","i","t","h"," ","c","a","l","m">>, <<"h","e","l","p">>}

QuizInputs ==
    { QuizInput(d, p, s) :
        d \in Descriptions,
        p \in {<<>>, <<"i","m","m","u","n","e","_","s","u","p","p","o","r","t">>, <<"d","i","g","e","s","t","i","v","e","_","h","e","a","l","t","h">>},
        s \in {<<>>, <<"d","i","g","e","s","t","i","v","e","_","h","e","a","l","t","h">>} }

\* llm_context["herbal_categories"]; <<>> also stands for no context
LlmHerbLists == { <<>>, <<<<"E","c","h","i","n","a","c","e","a">>, <<"g","i","n","g","e","r">>>> }

-----------------------------------------------------------------------------
(* The scorer as a state machine: one call of calculate_relevance_score on  *)
(* arguments drawn from the sets above.                                     *)

InitScore ==
    /\ sc_product \in ScoredProducts
    /\ sc_quiz \in QuizInputs
    /\ sc_llm \in LlmHerbLists
    /\ sc_called = FALSE
    /\ sc_score = 0
    /\ ValidatorIdle
    /\ catalog = <<>> /\ url_template = <<>>
    /\ rq_quiz = <<>> /\ rq_llm = <<>>
    /\ max_recommendations = 0 /\ min_score_threshold = 0
    /\ e_outcome = "idle" /\ recommendations = <<>>
    /\ catalog_file = NoFile
    /\ ServiceIdle

CalculateRelevanceScore ==
    /\ ~sc_called
    /\ sc_called' = TRUE
    /\ sc_score' = calculate_relevance_score(sc_product, sc_quiz, sc_llm)
    /\ UNCHANGED <<sc_product, sc_quiz, sc_llm, v_vars, e_vars, hq_vars, w_vars>>

NextScore == CalculateRelevanceScore

SpecScore == InitScore /\ [][NextScore]_vars

-----------------------------------------------------------------------------
(* ProductRecommendationEngine.                                             *)

\* str.replace(pattern, value) for a non-empty pattern
RECURSIVE ReplaceAll(_, _, _)
ReplaceAll(s, pattern, value) ==
    IF Len(s) < Len(pattern) THEN s
    ELSE IF SubSeq(s, 1, Len(pattern)) = pattern
    THEN value \o ReplaceAll(SubSeq(s, Len(pattern) + 1, Len(s)), pattern, value)
    ELSE <<Head(s)>> \o ReplaceAll(Tail(s), pattern, value)

f_product_slug == <<"{","p","r","o","d","u","c","t","_","s","l","u","g","}">>
f_product_name == <<"{","p","r","o","d","u","c","t","_","n","a","m","e","}">>
f_product_id == <<"{","p","r","o","d","u","c","t","_","i","d","}">>

\* _generate_purchase_link without the empty-slug test of lines 369-370.
_generate_purchase_link_NoSlugCheck(product, template) ==
    IF IsSubstr(f_product_slug, template) THEN
        [raised |-> FALSE, link |-> ReplaceAll(template, f_product_slug, product.slug)]
    ELSE IF IsSubstr(f_product_name, template) THEN
        [raised |-> FALSE, link |-> ReplaceAll(template, f_product_name, product.title)]
    ELSE IF IsSubstr(f_product_id, template) THEN
        [raised |-> FALSE, link |-> ReplaceAll(template, f_product_id, product.id)]
    ELSE [raised |-> FALSE, link |-> template]

\* _generate_purchase_link: [raised |-> TRUE] for the ValueError, else the
\* link; url_template.format(field=value) fills the one placeholder the
\* templates of the model carry.
_generate_purchase_link(product, template) ==
    IF IsSubstr(f_product_slug, template) THEN
        IF product.slug = <<>>
        THEN [raised |-> TRUE, link |-> <<>>]
        ELSE [raised |-> FALSE, link |-> ReplaceAll(template, f_product_slug, product.slug)]
    ELSE IF IsSubstr(f_product_name, template) THEN
        [raised |-> FALSE, link |-> ReplaceAll(template, f_product_name, product.title)]
    ELSE IF IsSubstr(f_product_id, template) THEN
        [raised |-> FALSE, link |-> ReplaceAll(template, f_product_id, product.id)]
    ELSE [raised |-> FALSE, link |-> template]

\* list[:n] of Python, for any integer n
Slice(list, n) ==
    IF n >= 0 THEN SubSeq(list, 1, Min(n, Len(list)))
    ELSE SubSeq(list, 1, Max(Len(list) + n, 0))

\* _generate_rationale: the sentences as <<kind, argument>> pairs, in the
\* order they are joined
_generate_rationale(product, quiz_input) ==
    LET keywords == get_category_keywords(quiz_input.primary_health_area)
        category_part ==
            IF /\ quiz_input.primary_health_area # <<>>
               /\ \E k \in 1..Len(keywords) :
                      \/ IsSubstr(keywords[k], Lower(product.title))
                      \/ IsSubstr(keywords[k], Lower(product.description))
            THEN << <<"formulated_for", quiz_input.primary_health_area>> >>
            ELSE <<>>
        beneficial_ingredients ==
            SelectSeq(product.ingredients,
                      LAMBDA i : get_ingredient_benefits(i) # <<>>)
        ingredient_part ==
            IF beneficial_ingredients # <<>>
            THEN << <<"beneficial_ingredients", Slice(beneficial_ingredients, 3)>> >>
            ELSE <<>>
        rating_part ==
            IF product.rating.given /\ product.rating.tenths >= 40
            THEN << <<"highly_rated", product.rating.tenths>> >>
            ELSE <<>>
        parts == category_part \o ingredient_part \o rating_part
    IN  IF parts = <<>> THEN << <<"default", <<>> >> >> ELSE parts

\* _get_key_ingredients
_get_key_ingredients(product, quiz_input) ==
    Slice(SelectSeq(product.ingredients,
                    LAMBDA i :
                        LET benefits == get_ingredient_benefits(i)
                        IN  /\ benefits # <<>>
                            /\ \/ /\ quiz_input.primary_health_area # <<>>
                                  /\ InList(quiz_input.primary_health_area, benefits)
                               \/ /\ quiz_input.secondary_health_area # <<>>
                                  /\ InList(quiz_input.secondary_health_area, benefits)),
          3)

\* ProductRecommendation built in the loop body (lines 318-327)
Recommendation(product, quiz_input, score, link) ==
    [product_id |-> product.id,
     title |-> product.title,
     description |-> product.description,
     category |-> IF product.categories # <<>> THEN product.categories[1]
                  ELSE <<"g","e","n","e","r","a","l">>,
     relevance_score |-> score,
     purchase_link |-> link,
     rationale |-> _generate_rationale(product, quiz_input),
     ingredient_highlights |-> _get_key_ingredients(product, quiz_input)]

\* list.sort(key=relevance_score, reverse=True): stable, so an item goes
\* behind every item whose score is at least its own
RECURSIVE InsertByScore(_, _)
InsertByScore(sorted, item) ==
    IF sorted = <<>> THEN <<item>>
    ELSE IF Head(sorted).relevance_score >= item.relevance_score
    THEN <<Head(sorted)>> \o InsertByScore(Tail(sorted), item)
    ELSE <<item>> \o sorted

RECURSIVE SortByScore(_)
SortByScore(list) ==
    IF list = <<>> THEN <<>>
    ELSE InsertByScore(SortByScore(SubSeq(list, 1, Len(list) - 1)), list[Len(list)])

-----------------------------------------------------------------------------
(* The catalogs, templates and call arguments of the engine.                *)

MaxCatalog == 3
MaxRecommendations == 2

immune_tea(id, slug, in_stock) ==
    Product(id, <<"I","m","m","u","n","e"," ","T","e","a">>, <<"d","e","f","e","n","s","e"," ","f","o","r"," ","t","h","e"," ","g","u","t">>,
            <<<<"I","m","m","u","n","e","_","S","u","p","p","o","r","t">>>>, <<<<"e","c","h","i","n","a","c","e","a">>>>, <<<<"i","m","m","u","n","e">>>>,
            in_stock, Rating(45), 10, slug)

CatalogProducts ==
    { immune_tea(<<"A">>, <<"i","m","m","u","n","e","-","t","e","a">>, TRUE),
      Product(<<"C">>, <<"I","m","m","u","n","e"," ","T","e","a">>, <<"d","e","f","e","n","s","e"," ","f","o","r"," ","t","h","e"," ","g","u","t">>,
              <<<<"I","m","m","u","n","e","_","S","u","p","p","o","r","t">>, <<"I","m","m","u","n","e","_","S","u","p","p","o","r","t">>>>,
              <<<<"e","c","h","i","n","a","c","e","a">>, <<"G","i","n","g","e","r"," ","R","o","o","t">>>>, <<<<"i","m","m","u","n","e">>>>,
              FALSE, Rating(50), 10000, <<"i","m","m","u","n","e","-","m","a","x">>),
      immune_tea(<<"D">>, <<>>, TRUE),
      Product(<<"E">>, <<"P","l","a","i","n"," ","O","i","l">>, <<"c","a","r","r","i","e","r"," ","o","i","l">>, <<>>, <<>>, <<>>,
              TRUE, NoRating, 0, <<"p","l","a","i","n","-","o","i","l">>) }

Catalogs == UNION { [1..n -> CatalogProducts] : n \in 0..MaxCatalog }

UrlTemplates ==
    { <<"/","p","r","o","d","u","c","t","/","{","p","r","o","d","u","c","t","_","s","l","u","g","}","/">>, <<"/","f","i","n","d","/","{","p","r","o","d","u","c","t","_","n","a","m","e","}">>,
      <<"/","i","t","e","m","/","{","p","r","o","d","u","c","t","_","i","d","}">>, <<"/","s","h","o","p">> }

\* (quiz_input, herbal categories of llm_context) of a call
EngineCalls ==
    { <<QuizInput(<<"i","m","m","u","n","e"," ","d","e","f","e","n","s","e"," ","t","e","a"," ","f","o","r"," ","t","h","e"," ","g","u","t">>, <<"i","m","m","u","n","e","_","s","u","p","p","o","r","t">>, <<>>), <<>> >>,
      <<QuizInput(<<"i","m","m","u","n","e"," ","d","e","f","e","n","s","e"," ","t","e","a"," ","f","o","r"," ","t","h","e"," ","g","u","t">>, <<"i","m","m","u","n","e","_","s","u","p","p","o","r","t">>, <<>>),
        <<<<"E","c","h","i","n","a","c","e","a">>, <<"g","i","n","g","e","r">>>> >>,
      <<QuizInput(<<"h","e","l","p">>, <<>>, <<>>), <<>> >> }

\* min_score_threshold 0.0, 0.3 (the default), 0.8
Thresholds == { 0, (3 * ScoreOne) \div 10, (8 * ScoreOne) \div 10 }

\* max_recommendations is passed through from the configuration unchecked
MaxRecommendationsValues == (0 - 1)..MaxRecommendations

\* ---- the catalog file ------------------------------------------------------

\* Python's `a or b` on two strings
Or(a, b) == IF a # <<>> THEN a ELSE b

\* any(word in text for word in words)
AnyIn(words, text) == \E k \in 1..Len(words) : IsSubstr(words[k], text)

common_herbs ==
    << <<"g","i","n","g","e","r">>, <<"t","u","r","m","e","r","i","c">>, <<"a","s","h","w","a","g","a","n","d","h","a">>, <<"e","c","h","i","n","a","c","e","a">>,
       <<"e","l","d","e","r","b","e","r","r","y">>, <<"g","i","n","s","e","n","g">>, <<"c","h","a","m","o","m","i","l","e">>, <<"v","a","l","e","r","i","a","n">>,
       <<"r","h","o","d","i","o","l","a">>, <<"m","i","l","k"," ","t","h","i","s","t","l","e">>, <<"g","a","r","l","i","c">>, <<"g","i","n","k","g","o">>,
       <<"c","h","a","g","a">>, <<"t","u","r","k","e","y"," ","t","a","i","l">>, <<"r","e","i","s","h","i">>, <<"l","o","b","e","l","i","a">>, <<"m","i","n","t">>,
       <<"f","e","r","n">> >>

\* A row as csv.DictReader yields it, under the normalised column names of
\* clean_row; a column the file does not have holds ''.  A row with more
\* cells than the header has the key None, on which k.strip raises.
CsvRow(id, sku, name, title, description, long_description, short_description, summary, slug) ==
    [id |-> id, product_id |-> <<>>, sku |-> sku, name |-> name, title |-> title,
     product_name |-> <<>>, description |-> description,
     long_description |-> long_description,
     short_description |-> short_description, summary |-> summary,
     slug |-> slug, cells_beyond_header |-> FALSE]

\* lines 52-80 on the row and its combined_text
ProductOfRow(row, combined_text) ==
    Product(Or(Or(row.id, row.product_id), row.sku),
            Or(Or(row.name, row.title), row.product_name),
            Or(row.description, row.long_description),
            (IF AnyIn(<<<<"i","m","m","u","n","e">>, <<"i","m","m","u","n","i","t","y">>, <<"d","e","f","e","n","s","e">>>>, combined_text)
             THEN <<<<"i","m","m","u","n","e","_","s","u","p","p","o","r","t">>>> ELSE <<>>)
            \o (IF AnyIn(<<<<"d","i","g","e","s","t","i","v","e">>, <<"s","t","o","m","a","c","h">>, <<"g","u","t">>, <<"c","o","u","g","h">>,
                          <<"s","y","r","u","p">>>>, combined_text)
                THEN <<<<"d","i","g","e","s","t","i","v","e","_","h","e","a","l","t","h">>>> ELSE <<>>)
            \o (IF AnyIn(<<<<"s","t","r","e","s","s">>, <<"c","a","l","m">>, <<"a","d","a","p","t","o","g","e","n">>>>, combined_text)
                THEN <<<<"s","t","r","e","s","s","_","r","e","l","i","e","f">>>> ELSE <<>>),
            SelectSeq(common_herbs, LAMBDA herb : IsSubstr(herb, combined_text)),
            <<>>, TRUE, NoRating, 0, row.slug)

\* ProductCatalogItem.from_csv_row for a row it does not raise on
from_csv_row(row) ==
    ProductOfRow(row,
                 Lower(Or(row.description, row.long_description) \o <<" ">>
                       \o Or(row.short_description, row.summary)))

\* the rows of the reader loop that from_csv_row parses; the others are
\* reported and skipped (lines 351-353)
ParsedRows(rows) == SelectSeq(rows, LAMBDA row : ~row.cells_beyond_header)

ProductsOfRows(rows) == [k \in 1..Len(rows) |-> from_csv_row(rows[k])]

\* _load_catalog that falls back to a built-in one-product catalog when
\* nothing is at catalog_path (line 343 returning a default, not []).
_load_catalog_DefaultOnMissing(file) ==
    IF ~file.exists
    THEN << Product(<<"P","0">>, <<"I","m","m","u","n","e"," ","T","e","a">>, <<"d","e","f","e","n","s","e">>, <<>>, <<>>, <<>>, TRUE,
                    NoRating, 0, <<"i","m","m","u","n","e","-","t","e","a">>) >>
    ELSE IF ~file.readable THEN <<>>
    ELSE ProductsOfRows(ParsedRows(file.rows))

\* _load_catalog on what is at catalog_path; open() raising ends the load
\* with the empty list built so far (lines 354-355)
_load_catalog(file) ==
    IF ~file.exists THEN <<>>
    ELSE IF ~file.readable THEN <<>>
    ELSE ProductsOfRows(ParsedRows(file.rows))

\* The largest catalog file read.
MaxFileRows == 2

CsvRows ==
    { CsvRow(<<"P","1">>, <<>>, <<"E","l","d","e","r","b","e","r","r","y"," ","S","y","r","u","p">>, <<>>, <<"I","m","m","u","n","e"," ","D","e","f","e","n","s","e">>, <<>>,
             <<"w","i","t","h"," ","E","l","d","e","r","b","e","r","r","y">>, <<>>, <<"e","l","d","e","r","b","e","r","r","y","-","s","y","r","u","p">>),
      CsvRow(<<>>, <<"S","2">>, <<>>, <<"P","l","a","i","n"," ","O","i","l">>, <<>>, <<"c","a","r","r","i","e","r"," ","o","i","l">>, <<>>,
             <<"f","o","r"," ","c","a","l","m">>, <<>>),
      [CsvRow(<<"P","3">>, <<>>, <<"B","r","o","k","e","n">>, <<>>, <<>>, <<>>, <<>>, <<>>, <<>>)
          EXCEPT !.cells_beyond_header = TRUE] }

\* what can be at catalog_path: nothing, a file that cannot be opened, a
\* file of rows
CatalogFiles ==
    {NoFile, [exists |-> TRUE, readable |-> FALSE, rows |-> <<>>]}
    \cup {[exists |-> TRUE, readable |-> TRUE, rows |-> r] :
             r \in SeqsUpTo(CsvRows, MaxFileRows)}

LoadedProducts == {from_csv_row(row) : row \in CsvRows}

\* calculate_relevance_score on the products and calls above, computed once
RelevanceTable ==
    [product \in CatalogProducts \cup LoadedProducts |->
        [call \in EngineCalls |->
            calculate_relevance_score(product, call[1], call[2])]]

RelevanceScore(product, quiz_input, llm_herbs) ==
    RelevanceTable[product][<<quiz_input, llm_herbs>>]

\* Loop body without the in-stock test of line 305.
Considered_NoStockCheck(product, score, made, quiz_input, threshold) ==
    IF score < threshold THEN [kind |-> "skip"]
    ELSE IF made.raised THEN [kind |-> "raise"]
    ELSE [kind |-> "append",
          item |-> Recommendation(product, quiz_input, score, made.link)]

\* Loop body without the threshold test of line 314.
Considered_NoThreshold(product, score, made, quiz_input, threshold) ==
    IF ~product.in_stock THEN [kind |-> "skip"]
    ELSE IF made.raised THEN [kind |-> "raise"]
    ELSE [kind |-> "append",
          item |-> Recommendation(product, quiz_input, score, made.link)]

\* The body of `for product in self.catalog` (lines 303-329), with score the
\* value of calculate_relevance_score and made the outcome of
\* _generate_purchase_link for the product: the product is skipped, the
\* purchase link raises, or a recommendation is appended.
Considered(product, score, made, quiz_input, threshold) ==
    IF ~product.in_stock THEN [kind |-> "skip"]
    ELSE IF score < threshold THEN [kind |-> "skip"]
    ELSE IF made.raised THEN [kind |-> "raise"]
    ELSE [kind |-> "append",
          item |-> Recommendation(product, quiz_input, score, made.link)]

\* the loop over products[k..]: [raised, list]
RECURSIVE ScoreAll(_, _, _, _, _, _, _)
RECURSIVE AfterStep(_, _, _, _, _, _, _, _)
AfterStep(products, k, template, quiz_input, llm_herbs, threshold, acc, step) ==
    IF step.kind = "raise" THEN [raised |-> TRUE, list |-> <<>>]
    ELSE ScoreAll(products, k + 1, template, quiz_input, llm_herbs, threshold,
                  IF step.kind = "append" THEN Append(acc, step.item) ELSE acc)

ScoreAll(products, k, template, quiz_input, llm_herbs, threshold, acc) ==
    IF k > Len(products) THEN [raised |-> FALSE, list |-> acc]
    ELSE AfterStep(products, k, template, quiz_input, llm_herbs, threshold, acc,
                   Considered(products[k],
                              RelevanceScore(products[k], quiz_input, llm_herbs),
                              _generate_purchase_link(products[k], template),
                              quiz_input, threshold))

\* lines 331-333 on the outcome of the loop
SortedAndTruncated(scored, max_rec) ==
    IF scored.raised THEN [raised |-> TRUE, list |-> <<>>]
    ELSE [raised |-> FALSE, list |-> Slice(SortByScore(scored.list), max_rec)]

\* recommend_products: [raised |-> TRUE] when the ValueError leaves the call,
\* else the returned list
recommend_products(products, template, quiz_input, llm_herbs, max_rec, threshold) ==
    SortedAndTruncated(
        ScoreAll(products, 1, template, quiz_input, llm_herbs, threshold, <<>>),
        max_rec)

InitEngine ==
    /\ catalog \in Catalogs
    /\ url_template \in UrlTemplates
    /\ rq_quiz = QuizInput(<<>>, <<>>, <<>>)
    /\ rq_llm = <<>>
    /\ max_recommendations = 5
    /\ min_score_threshold = (3 * ScoreOne) \div 10
    /\ e_outcome = "idle"
    /\ recommendations = <<>>
    /\ catalog_file = NoFile
    /\ ServiceIdle
    /\ ValidatorIdle
    /\ sc_product = <<>> /\ sc_quiz = <<>> /\ sc_llm = <<>>
    /\ sc_called = FALSE /\ sc_score = 0

Finished(result) ==
    /\ e_outcome' = IF result.raised THEN "raised" ELSE "returned"
    /\ recommendations' = result.list

RecommendProducts ==
    /\ e_outcome = "idle"
    /\ \E call \in EngineCalls, n \in MaxRecommendationsValues, t \in Thresholds :
          /\ rq_quiz' = call[1]
          /\ rq_llm' = call[2]
          /\ max_recommendations' = n
          /\ min_score_threshold' = t
          /\ Finished(recommend_products(catalog, url_template, call[1], call[2], n, t))
    /\ UNCHANGED <<catalog, url_template, catalog_file>>
    /\ UNCHANGED <<v_vars, sc_vars, hq_vars, w_vars>>

NextEngine == RecommendProducts

SpecEngine == InitEngine /\ [][NextEngine]_vars

-----------------------------------------------------------------------------
(* The engine from its construction: __init__ loads the catalog from        *)
(* catalog_path, and recommend_products is then called any number of times. *)

InitLoad ==
    /\ catalog_file \in CatalogFiles
    /\ catalog = <<>>
    /\ url_template \in UrlTemplates
    /\ rq_quiz = QuizInput(<<>>, <<>>, <<>>)
    /\ rq_llm = <<>>
    /\ max_recommendations = 5
    /\ min_score_threshold = (3 * ScoreOne) \div 10
    /\ e_outcome = "unbuilt"
    /\ recommendations = <<>>
    /\ ServiceIdle
    /\ ValidatorIdle
    /\ sc_product = <<>> /\ sc_quiz = <<>> /\ sc_llm = <<>>
    /\ sc_called = FALSE /\ sc_score = 0

\* ProductRecommendationEngine.__init__ (lines 286-291)
Construct ==
    /\ e_outcome = "unbuilt"
    /\ catalog' = _load_catalog(catalog_file)
    /\ e_outcome' = "idle"
    /\ UNCHANGED <<url_template, rq_quiz, rq_llm, max_recommendations,
                   min_score_threshold, recommendations, catalog_file>>
    /\ UNCHANGED <<v_vars, sc_vars, hq_vars, w_vars>>

\* a later recommend_products call on the same engine
RecommendAgain ==
    /\ e_outcome \in {"returned", "raised"}
    /\ \E call \in EngineCalls, n \in MaxRecommendationsValues, t \in Thresholds :
          /\ rq_quiz' = call[1]
          /\ rq_llm' = call[2]
          /\ max_recommendations' = n
          /\ min_score_threshold' = t
          /\ Finished(recommend_products(catalog, url_template, call[1], call[2], n, t))
    /\ UNCHANGED <<catalog, url_template, catalog_file>>
    /\ UNCHANGED <<v_vars, sc_vars, hq_vars, w_vars>>

NextLoad == Construct \/ RecommendProducts \/ RecommendAgain

SpecLoad == InitLoad /\ [][NextLoad]_vars

-----------------------------------------------------------------------------
(* Properties of the validator.                                             *)

LastOf(seq) == seq[Len(seq)]

\* The step just taken validated one record.
ValidatedOne == Len(corrected') = Len(corrected) + 1

\* The code's local best_slug: the record's guess, stripped.
GuessOf(c) == Strip(c.best_slug)

IsPrimarySlug(slug) ==
    \E k \in 1..Len(taxonomy_tree) :
        taxonomy_tree[k].type = "primary" /\ taxonomy_tree[k].slug = slug

\* slug is a subcategory nested in the primary with slug parent
IsSubcategoryOf(slug, parent) ==
    \E k \in 1..Len(taxonomy_tree) :
        /\ taxonomy_tree[k].type = "primary"
        /\ taxonomy_tree[k].slug = parent
        /\ \E j \in 1..Len(taxonomy_tree[k].children) :
               /\ taxonomy_tree[k].children[j].type = "subcategory"
               /\ taxonomy_tree[k].children[j].slug = slug

IsSubcategorySlug(slug) ==
    \E k \in 1..Len(taxonomy_tree) : IsSubcategoryOf(slug, taxonomy_tree[k].slug)

\* slug is the normalised title of some primary or subcategory
IsTitleSlug(slug) ==
    \E k \in 1..Len(taxonomy_tree) :
        /\ taxonomy_tree[k].type = "primary"
        /\ \/ taxonomy_tree[k].title # <<>> /\ TitleSlug(taxonomy_tree[k].title) = slug
           \/ \E j \in 1..Len(taxonomy_tree[k].children) :
                  /\ taxonomy_tree[k].children[j].type = "subcategory"
                  /\ taxonomy_tree[k].children[j].title # <<>>
                  /\ TitleSlug(taxonomy_tree[k].children[j].title) = slug

\* SequenceMatcher(a = x, b = word).ratio() for the slugs and words of the
\* model, computed once.
RatioTable ==
    [x \in UNION {AllSlugs(t) : t \in Taxonomies} |->
        [w \in {Strip(g) : g \in BestSlugGuesses \cup LegacyGuesses} |-> Ratio(x, w)]]

\* some valid slug is at similarity 0.8 or above
HasFuzzyMatch(slug) ==
    \E x \in taxonomy_slugs : 10 * RatioTable[x][slug][1] >= 8 * RatioTable[x][slug][2]

\* C8: a record whose slug guess is a known primary-category slug keeps that
\* slug as category_slug, has an empty sub_category_slug, adds 1 to
\* valid_category and changes nothing else in the report (no other counter,
\* no correction-log entry).  The guess is best_slug or, for a record in the
\* old format with no subcategory, category_slug.
C8_PrimaryGuessAccepted ==
    [][ValidatedOne =>
          LET c == LastOf(classifications')
              o == LastOf(corrected')
          IN  /\ IsPrimarySlug(GuessOf(c)) =>
                    /\ o.category_slug = GuessOf(c)
                    /\ o.sub_category_slug = <<>>
                    /\ validation_report' =
                         [validation_report EXCEPT !.valid_category = @ + 1]
              /\ (/\ GuessOf(c) = <<>>
                  /\ IsPrimarySlug(c.category_slug)
                  /\ c.sub_category_slug = <<>>) =>
                    /\ o.category_slug = c.category_slug
                    /\ o.sub_category_slug = <<>>
                    /\ validation_report' =
                         [validation_report EXCEPT !.valid_category = @ + 1]
       ]_vars

\* C8 witness: a primary guess that came with stale legacy fields was validated.
C8_Witness ==
    \E k \in 1..Len(corrected) :
        /\ IsPrimarySlug(GuessOf(classifications[k]))
        /\ classifications[k].sub_category_slug # <<>>
        /\ corrected[k].category_slug = GuessOf(classifications[k])
        /\ corrected[k].sub_category_slug = <<>>
        /\ validation_report.valid_category >= 1
        /\ validation_report.corrections = <<>>

\* C9 (as claimed): a record whose best_slug is a known subcategory s with
\* parent p gets category_slug = p and sub_category_slug = s, no correction-log
\* entry, and valid_category and valid_subcategory each grow by exactly 1.
C9_SubcategoryGuessCountedOnce ==
    [][ValidatedOne =>
          LET c == LastOf(classifications')
              o == LastOf(corrected')
          IN  \A p \in taxonomy_slugs :
                  IsSubcategoryOf(GuessOf(c), p) =>
                      /\ o.category_slug = p
                      /\ o.sub_category_slug = GuessOf(c)
                      /\ validation_report' =
                           [validation_report EXCEPT !.valid_category = @ + 1,
                                                     !.valid_subcategory = @ + 1]
       ]_vars

\* C10: a record whose best_slug is not a primary slug, not a subcategory
\* slug, not a normalised title and has no fuzzy match at 0.8 or above gets
\* both fields cleared, and exactly one correction record is appended for it:
\* reason no_match_found, old = the best_slug, new = empty.
C10_NoMatchClearedAndLogged ==
    [][ValidatedOne =>
          LET c == LastOf(classifications')
              o == LastOf(corrected')
          IN  (/\ GuessOf(c) # <<>>
               /\ ~IsPrimarySlug(GuessOf(c))
               /\ ~IsSubcategorySlug(GuessOf(c))
               /\ ~IsTitleSlug(GuessOf(c))
               /\ ~HasFuzzyMatch(GuessOf(c))) =>
                  /\ o.category_slug = <<>>
                  /\ o.sub_category_slug = <<>>
                  /\ Len(validation_report'.corrections) =
                        Len(validation_report.corrections) + 1
                  /\ SubSeq(validation_report'.corrections, 1,
                            Len(validation_report.corrections)) =
                        validation_report.corrections
                  /\ LastOf(validation_report'.corrections) =
                        [product_id |-> c.product_id, field |-> "best_slug",
                         old |-> GuessOf(c), new |-> <<>>,
                         reason |-> "no_match_found"]
       ]_vars

\* C10 witness: an unmatched guess that came with stale legacy fields was
\* cleared and logged.
C10_Witness ==
    \E k \in 1..Len(corrected) :
        /\ GuessOf(classifications[k]) = w_unknown_xyz
        /\ classifications[k].category_slug # <<>>
        /\ corrected[k].category_slug = <<>>
        /\ corrected[k].sub_category_slug = <<>>
        /\ \E n \in 1..Len(validation_report.corrections) :
               /\ validation_report.corrections[n].product_id = k
               /\ validation_report.corrections[n].reason = "no_match_found"

\* A validated copy carries the identity of the record it was made from.
SameRecord(c, o) == o.product_id = c.product_id /\ o.best_slug = c.best_slug

\* C11: for every batch and every combination of slug guesses in it the call
\* returns (no record stops the loop), and what it returns is one corrected
\* record per input record, in input order, with a report whose total is the
\* number of input records.
C11_BatchAlwaysCompletes ==
    /\ [](/\ validation_report.total = total
          /\ Len(corrected) = Len(classifications)
          /\ Len(corrected) <= total
          /\ \A k \in 1..Len(corrected) : SameRecord(classifications[k], corrected[k])
          /\ v_pc = "returned" => Len(corrected) = total)
    /\ <>(v_pc = "returned")

\* C11 witness: a full batch holding an unmatched guess and a record with no
\* guess at all was returned.
C11_Witness ==
    /\ v_pc = "returned"
    /\ total = MaxBatch
    /\ Len(corrected) = total
    /\ \E k \in 1..total : GuessOf(classifications[k]) = w_unknown_xyz
    /\ \E k \in 1..total :
           /\ GuessOf(classifications[k]) = <<>>
           /\ classifications[k].category_slug = <<>>
    /\ validation_report.total = MaxBatch

\* The correction records the step just taken appended.
NewCorrections ==
    SubSeq(validation_report'.corrections,
           Len(validation_report.corrections) + 1,
           Len(validation_report'.corrections))

\* Those of them written by the best_slug rules.
NewBestSlugCorrections == SelectSeq(NewCorrections, LAMBDA e : e.field = "best_slug")

\* C16: the best_slug rules are tried in the order primary slug, subcategory
\* slug, normalised title, fuzzy match, no match, and the record gets the
\* outcome of the first rule its best_slug satisfies and of no other rule: a
\* primary slug is accepted as it is even when it is also a title or has a
\* fuzzy match, and so on down the list.
C16_FirstRuleWins ==
    [][ValidatedOne =>
          LET c == LastOf(classifications')
              o == LastOf(corrected')
              g == GuessOf(c)
          IN  g # <<>> =>
                IF IsPrimarySlug(g) THEN
                    /\ NewBestSlugCorrections = <<>>
                    /\ o.category_slug = g /\ o.sub_category_slug = <<>>
                    /\ validation_report'.valid_category =
                          validation_report.valid_category + 1
                    /\ validation_report'.corrected_category =
                          validation_report.corrected_category
                    /\ validation_report'.invalid_category =
                          validation_report.invalid_category
                ELSE IF IsSubcategorySlug(g) THEN
                    /\ NewBestSlugCorrections = <<>>
                    /\ IsSubcategoryOf(g, o.category_slug)
                    /\ o.sub_category_slug = g
                    /\ validation_report'.valid_category =
                          validation_report.valid_category + 1
                    /\ validation_report'.corrected_category =
                          validation_report.corrected_category
                    /\ validation_report'.invalid_category =
                          validation_report.invalid_category
                ELSE
                    /\ Len(NewBestSlugCorrections) = 1
                    /\ NewBestSlugCorrections[1].old = g
                    /\ NewBestSlugCorrections[1].reason =
                          IF IsTitleSlug(g) THEN "title_to_slug_mapping"
                          ELSE IF HasFuzzyMatch(g) THEN "fuzzy_match"
                          ELSE "no_match_found"
                    /\ validation_report'.valid_category =
                          validation_report.valid_category
                    /\ validation_report'.corrected_category
                          + validation_report'.invalid_category =
                          validation_report.corrected_category
                          + validation_report.invalid_category + 1
                    /\ (validation_report'.invalid_category =
                          validation_report.invalid_category + 1)
                       <=> (~IsTitleSlug(g) /\ ~HasFuzzyMatch(g))
       ]_vars

\* C16 witness: a guess that is a primary slug and also the normalised title
\* of a subcategory under another primary (and its own fuzzy match) was
\* accepted as the primary it names, with nothing logged.
C16_Witness ==
    \E k \in 1..Len(corrected) :
        /\ IsPrimarySlug(GuessOf(classifications[k]))
        /\ IsTitleSlug(GuessOf(classifications[k]))
        /\ HasFuzzyMatch(GuessOf(classifications[k]))
        /\ title_to_slug(taxonomy_tree, GuessOf(classifications[k]))
              # GuessOf(classifications[k])
        /\ corrected[k].category_slug = GuessOf(classifications[k])
        /\ corrected[k].sub_category_slug = <<>>
        /\ validation_report.corrections = <<>>
        /\ validation_report.valid_category >= 1

\* title_slug is the normalised title of the primary or subcategory with slug s
IsTitleOf(title_slug, s) ==
    \E k \in 1..Len(taxonomy_tree) :
        /\ taxonomy_tree[k].type = "primary"
        /\ \/ /\ taxonomy_tree[k].slug = s
              /\ taxonomy_tree[k].title # <<>>
              /\ TitleSlug(taxonomy_tree[k].title) = title_slug
           \/ \E j \in 1..Len(taxonomy_tree[k].children) :
                  /\ taxonomy_tree[k].children[j].type = "subcategory"
                  /\ taxonomy_tree[k].children[j].slug = s
                  /\ taxonomy_tree[k].children[j].title # <<>>
                  /\ TitleSlug(taxonomy_tree[k].children[j].title) = title_slug

\* s is a valid slug at similarity 0.8 or above to slug, and none is closer
IsBestFuzzyMatch(slug, s) ==
    /\ s \in taxonomy_slugs
    /\ 10 * RatioTable[s][slug][1] >= 8 * RatioTable[s][slug][2]
    /\ \A x \in taxonomy_slugs : ~RatioLess(RatioTable[s][slug], RatioTable[x][slug])

\* The record the same call returns for c with its best_slug replaced by s.
DirectlyValidated(c, s) ==
    ValidateOne([c EXCEPT !.best_slug = s], EmptyReport(1), taxonomy_tree,
                taxonomy_slugs).cc

C18_SubcategoryInCategoryPromoted ==
    [][ValidatedOne =>
          LET c == LastOf(classifications')
              o == LastOf(corrected')
          IN  \A p \in taxonomy_slugs :
                  (/\ GuessOf(c) = <<>>
                   /\ IsSubcategoryOf(Strip(c.category_slug), p)) =>
                      /\ o.category_slug = p
                      /\ o.sub_category_slug = Strip(c.category_slug)
                      /\ validation_report'.hierarchy_corrections =
                            validation_report.hierarchy_corrections + 1
                      /\ Len(NewCorrections) = 1
                      /\ NewCorrections[1].product_id = c.product_id
                      /\ NewCorrections[1].field = "hierarchy"
                      /\ NewCorrections[1].reason = "subcategory_in_category_position"
       ]_vars

\* C18 witness: a subcategory slug that came in category_slug next to a
\* different sub_category_slug was promoted and its parent filled in.
C18_Witness ==
    \E k \in 1..Len(corrected) :
        /\ GuessOf(classifications[k]) = <<>>
        /\ IsSubcategoryOf(classifications[k].category_slug, corrected[k].category_slug)
        /\ classifications[k].sub_category_slug # <<>>
        /\ classifications[k].sub_category_slug # classifications[k].category_slug
        /\ corrected[k].sub_category_slug = classifications[k].category_slug
        /\ validation_report.hierarchy_corrections >= 1
        /\ \E n \in 1..Len(validation_report.corrections) :
               /\ validation_report.corrections[n].product_id = k
               /\ validation_report.corrections[n].reason =
                     "subcategory_in_category_position"

\* C19 (as claimed): a record with no best_slug whose sub_category_slug holds
\* a known primary-category slug ends with an empty sub_category_slug and the
\* category_slug that validating its category_slug alone gives, and one
\* correction record with reason primary_category_in_subcategory_position is
\* appended for it.
C19_PrimaryInSubcategoryCleared ==
    [][ValidatedOne =>
          LET c == LastOf(classifications')
              o == LastOf(corrected')
          IN  (/\ GuessOf(c) = <<>>
               /\ IsPrimarySlug(Strip(c.sub_category_slug))) =>
                  /\ o.sub_category_slug = <<>>
                  /\ o.category_slug =
                        ValidateOne([c EXCEPT !.sub_category_slug = <<>>],
                                    EmptyReport(1), taxonomy_tree,
                                    taxonomy_slugs).cc.category_slug
                  /\ \E n \in 1..Len(NewCorrections) :
                         /\ NewCorrections[n] =
                               [product_id |-> c.product_id,
                                field |-> "sub_category_slug",
                                old |-> Strip(c.sub_category_slug), new |-> <<>>,
                                reason |-> "primary_category_in_subcategory_position"]
                         /\ \A m \in 1..Len(NewCorrections) :
                                NewCorrections[m].reason = NewCorrections[n].reason
                                    => m = n
       ]_vars

\* C20 (as claimed): the legacy fields of a record with a non-empty best_slug
\* have no influence: any other record with the same best_slug, whatever its
\* category_slug and sub_category_slug, gets the same output fields, the same
\* counter increments and the same correction records.
C20_LegacyFieldsIgnored ==
    [][ValidatedOne =>
          LET c == LastOf(classifications')
          IN  GuessOf(c) # <<>> =>
                \A d \in RecordPool(c.product_id) :
                    d.best_slug = c.best_slug =>
                        /\ ValidateOne(d, validation_report, taxonomy_tree,
                                       taxonomy_slugs).cc.category_slug
                              = LastOf(corrected').category_slug
                        /\ ValidateOne(d, validation_report, taxonomy_tree,
                                       taxonomy_slugs).cc.sub_category_slug
                              = LastOf(corrected').sub_category_slug
                        /\ ValidateOne(d, validation_report, taxonomy_tree,
                                       taxonomy_slugs).rep = validation_report'
       ]_vars

-----------------------------------------------------------------------------
(* Properties of calculate_relevance_score.                                 *)

\* C1 (as claimed): calculate_relevance_score returns a value between 0 and 1
\* inclusive for every product and every quiz input.
C1_ScoreInUnitInterval ==
    sc_called => (0 <= sc_score /\ sc_score <= ScoreOne)

\* product.ingredients with ingredient i put in after the first k
WithIngredient(product, i, k) ==
    [product EXCEPT !.ingredients =
        SubSeq(@, 1, k) \o <<i>> \o SubSeq(@, k + 1, Len(@))]

MatchesPrimary(i, quiz_input) ==
    /\ quiz_input.primary_health_area # <<>>
    /\ InList(quiz_input.primary_health_area, get_ingredient_benefits(i))

\* C7: for a quiz input whose primary health area is among the benefits of
\* ingredient i, the score of the product with i added to its ingredient list
\* (in front or at the end) is at least the score of the product without it.
C7_MatchingIngredientNeverLowersScore ==
    sc_called =>
        \A i \in IngredientNames :
            MatchesPrimary(i, sc_quiz) =>
                \A k \in {0, Len(sc_product.ingredients)} :
                    calculate_relevance_score(WithIngredient(sc_product, i, k),
                                              sc_quiz, sc_llm) >= sc_score

\* C7 witness: a scored product that already carries an ingredient gains
\* score from a further ingredient that matches the primary health area.
C7_Witness ==
    /\ sc_called
    /\ sc_product.ingredients # <<>>
    /\ \E i \in IngredientNames :
           /\ MatchesPrimary(i, sc_quiz)
           /\ calculate_relevance_score(WithIngredient(sc_product, i, 0),
                                        sc_quiz, sc_llm) > sc_score

-----------------------------------------------------------------------------
(* Properties of recommend_products.                                        *)

Returned == e_outcome = "returned"
Raised == e_outcome = "raised"

\* the score of catalog[j] against the quiz input of the call
CatalogScore(j) == calculate_relevance_score(catalog[j], rq_quiz, rq_llm)

\* the catalog positions that are in stock and at or above the threshold
Qualifying ==
    {j \in 1..Len(catalog) :
        catalog[j].in_stock /\ CatalogScore(j) >= min_score_threshold}

\* C2: no item of the returned list is a catalog product whose in_stock flag
\* is false, however high that product scores.
C2_NoOutOfStockReturned ==
    Returned =>
        \A k \in 1..Len(recommendations) :
            \A j \in 1..Len(catalog) :
                catalog[j].id = recommendations[k].product_id => catalog[j].in_stock

\* C2 witness: a list was returned from a catalog whose out-of-stock product
\* scores above the threshold and above every returned item.
C2_Witness ==
    /\ Returned
    /\ recommendations # <<>>
    /\ \E j \in 1..Len(catalog) :
           /\ ~catalog[j].in_stock
           /\ CatalogScore(j) >= min_score_threshold
           /\ \A k \in 1..Len(recommendations) :
                  CatalogScore(j) > recommendations[k].relevance_score

\* C3 (as claimed): for every value of max_recommendations passed, the
\* returned list has at most max_recommendations items.
C3_AtMostMaxRecommendations ==
    Returned => Len(recommendations) <= max_recommendations

\* C4: every returned item has relevance_score >= min_score_threshold, and
\* that relevance_score is the score calculate_relevance_score gives for its
\* product and the quiz input.
C4_ReturnedScoresAtOrAboveThreshold ==
    Returned =>
        \A k \in 1..Len(recommendations) :
            /\ recommendations[k].relevance_score >= min_score_threshold
            /\ \E j \in 1..Len(catalog) :
                   /\ catalog[j].id = recommendations[k].product_id
                   /\ recommendations[k].relevance_score = CatalogScore(j)

\* C4 witness: a list was returned while an in-stock product of the catalog
\* scored below a positive threshold.
C4_Witness ==
    /\ Returned
    /\ recommendations # <<>>
    /\ min_score_threshold > 0
    /\ \E j \in 1..Len(catalog) :
           catalog[j].in_stock /\ CatalogScore(j) < min_score_threshold

\* position of qualifying catalog[j] in the stable descending ordering
StableRank(j) ==
    1 + Cardinality({i \in Qualifying :
                        \/ CatalogScore(i) > CatalogScore(j)
                        \/ CatalogScore(i) = CatalogScore(j) /\ i < j})

\* C5 (as claimed): the returned list is ordered by non-increasing
\* relevance_score, items with equal scores keep the relative order of their
\* products in the catalog, and the list is exactly the first
\* max_recommendations items of that stable ordering of all in-stock
\* products at or above the threshold.
C5_FirstOfStableOrdering ==
    Returned =>
        /\ \A k \in 1..(Len(recommendations) - 1) :
               recommendations[k].relevance_score
                   >= recommendations[k + 1].relevance_score
        /\ Len(recommendations) =
               Min(Max(max_recommendations, 0), Cardinality(Qualifying))
        /\ \A k \in 1..Len(recommendations) :
               \E j \in Qualifying :
                   /\ StableRank(j) = k
                   /\ recommendations[k].product_id = catalog[j].id
                   /\ recommendations[k].relevance_score = CatalogScore(j)

EmptySlugQualifies == \E j \in Qualifying : catalog[j].slug = <<>>

\* no returned purchase link was built from an empty slug
NoLinkFromEmptySlug ==
    IsSubstr(f_product_slug, url_template) =>
        \A k \in 1..Len(recommendations) :
            /\ recommendations[k].purchase_link
                   # ReplaceAll(url_template, f_product_slug, <<>>)
            /\ \A j \in 1..Len(catalog) :
                   catalog[j].id = recommendations[k].product_id
                       => catalog[j].slug # <<>>

\* C6 (as claimed): whenever an in-stock product with an empty slug scores at
\* or above the threshold, recommend_products ends with the error of the
\* purchase link; it never returns a link built from an empty slug.
C6_EmptySlugAlwaysRaises ==
    /\ (e_outcome # "idle" /\ EmptySlugQualifies) => Raised
    /\ Returned => NoLinkFromEmptySlug

\* C6 (amended): whenever the configured template contains {product_slug} and
\* an in-stock product with an empty slug scores at or above the threshold,
\* recommend_products ends with the error of the purchase link; under every
\* template it never returns a link built from an empty slug.
C6_EmptySlugRaisesUnderSlugTemplate ==
    /\ (/\ e_outcome # "idle"
        /\ IsSubstr(f_product_slug, url_template)
        /\ EmptySlugQualifies) => Raised
    /\ Returned => NoLinkFromEmptySlug

\* C6 witness: the call ended with the error although a product with a slug
\* ahead of the empty-slug product qualified as well.
C6_Witness ==
    /\ Raised
    /\ recommendations = <<>>
    /\ \E j \in Qualifying : catalog[j].slug = <<>>
    /\ \E j \in Qualifying : catalog[j].slug # <<>>


-----------------------------------------------------------------------------
(* Properties of the engine's construction.                                 *)

\* C12: an engine built with a catalog_path at which nothing exists is built
\* without an error and has an empty catalog, and every recommend_products
\* call on it, the first and the later ones, for every quiz input, returns an
\* empty list and raises nothing.
C12_MissingCatalogGivesNoRecommendations ==
    ~catalog_file.exists =>
        /\ e_outcome \in {"unbuilt", "idle", "returned"}
        /\ catalog = <<>>
        /\ e_outcome = "returned" => recommendations = <<>>
        /\ e_outcome = "unbuilt" => ENABLED Construct
        /\ e_outcome = "idle" => ENABLED RecommendProducts

\* C12 witness: an engine built on a missing path has answered a call that
\* asks for recommendations at any score with the empty list.
C12_Witness ==
    /\ ~catalog_file.exists
    /\ e_outcome = "returned"
    /\ rq_quiz.primary_health_area # <<>>
    /\ rq_llm # <<>>
    /\ max_recommendations > 0
    /\ min_score_threshold = 0
    /\ recommendations = <<>>


-----------------------------------------------------------------------------
\* HealthQuizInput (health_quiz_models.py 12-46)

\* Optional[List[str]]: None, or a list
NoList == [is_none |-> TRUE, items |-> <<>>]
ListOf(items) == [is_none |-> FALSE, items |-> items]

\* Optional[str]: None, or a string
NoArea == "None"

\* the truth value Python gives an Optional[str] and an Optional[List[str]]
TruthyStr(s) == s # NoArea /\ s # ""
TruthyList(l) == ~l.is_none /\ l.items # <<>>

\* x in (l or [])
InAreas(x, l) == \E i \in 1..Len(l.items) : l.items[i] = x

\* the fields of a HealthQuizInput the normalisation reads and writes
HealthQuizInput(areas, primary, secondary) ==
    [primary_health_areas |-> areas, primary_health_area |-> primary,
     secondary_health_area |-> secondary]

\* lines 35-36
LegacyPrimaryStep(self) ==
    IF ~TruthyList(self.primary_health_areas)
       /\ TruthyStr(self.primary_health_area)
    THEN [self EXCEPT !.primary_health_areas =
                           ListOf(<<self.primary_health_area>>)]
    ELSE self

\* lines 39-42 with the membership test of line 39 left out
LegacySecondaryStep_AppendsAlways(self) ==
    IF TruthyStr(self.secondary_health_area)
    THEN [self EXCEPT !.primary_health_areas =
             ListOf(Append(self.primary_health_areas.items,
                           self.secondary_health_area))]
    ELSE self

\* lines 39-42
LegacySecondaryStep(self) ==
    IF TruthyStr(self.secondary_health_area)
       /\ ~InAreas(self.secondary_health_area, self.primary_health_areas)
    THEN [self EXCEPT !.primary_health_areas =
             ListOf(Append(IF TruthyList(self.primary_health_areas)
                           THEN self.primary_health_areas.items ELSE <<>>,
                           self.secondary_health_area))]
    ELSE self

\* lines 45-46
NoneToListStep(self) ==
    IF self.primary_health_areas.is_none
    THEN [self EXCEPT !.primary_health_areas = ListOf(<<>>)]
    ELSE self

__post_init__(self) == NoneToListStep(LegacySecondaryStep(LegacyPrimaryStep(self)))

\* longest multiselect answer of the model
MaxAreas == 2

HealthAreas == {"immune_support", "stress_relief", "digestive_health"}

\* a multiselect answer: each option at most once
Multiselect ==
    {l \in SeqsUpTo(HealthAreas, MaxAreas) :
        \A i, j \in 1..Len(l) : l[i] = l[j] => i = j}

QuizInputArgs ==
    {HealthQuizInput(areas, primary, secondary) :
        areas \in {NoList} \cup {ListOf(l) : l \in Multiselect},
        primary \in {NoArea} \cup HealthAreas,
        secondary \in {NoArea} \cup HealthAreas}

\* the constructor is called with some arguments ...
InitQuizInput ==
    /\ hq_args \in QuizInputArgs
    /\ hq_input = <<>>
    /\ StorageIdle /\ ValidatorIdle /\ EngineUnused

\* ... the generated __init__ assigns the fields and calls __post_init__
ConstructQuizInput ==
    /\ hq_input = <<>>
    /\ hq_input' = __post_init__(hq_args)
    /\ UNCHANGED <<hq_args, v_vars, sc_vars, e_vars, w_vars>>

\* HealthQuizInput.from_dict(quiz_input.to_dict()): None fields are filtered
\* out and default to None again, the others are passed as they are
FromDictOfToDict ==
    /\ hq_input # <<>>
    /\ hq_args' = hq_input
    /\ hq_input' = __post_init__(hq_input)
    /\ UNCHANGED <<v_vars, sc_vars, e_vars, w_vars>>

NextQuizInput == ConstructQuizInput \/ FromDictOfToDict

SpecQuizInput == InitQuizInput /\ [][NextQuizInput]_vars

-----------------------------------------------------------------------------
\* Properties of HealthQuizInput

TimesIn(x, l) == Cardinality({i \in 1..Len(l) : l[i] = x})

-----------------------------------------------------------------------------
\* QuizResultsStorage (web_service.py 34-111)

\* Python None where a str or a dict is expected
NoValue == "None"

\* the truth value of an Optional[str]
Given(x) == x # NoValue /\ x # ""

\* return value None of a lookup
NoResult == <<>>

\* line 40; the clock of the model counts hours
ttl_hours == 24

\* hashlib.sha256(...).hexdigest(), taken to be free of collisions
sha256(text) == <<"sha256">> \o text

\* _hash_email that hashes the address as it was typed
_hash_email_AsTyped(email) == sha256(email)

\* lines 42-44
_hash_email(email) == sha256(Strip(Lower(email)))

\* lines 50-57
ResultData(status, data, html_report, timestamp, email, token) ==
    [status |-> status, data |-> data, html_report |-> html_report,
     timestamp |-> timestamp, email |-> email, token |-> token]

\* d[key] = value
SetItem(d, key, value) == (key :> value) @@ d

\* del d[key], for a key of d
DelItem(d, key) == [k \in DOMAIN d \ {key} |-> d[k]]

\* lines 46-67: the two dicts after store_result
store_result(by_email, by_token, email_hash, result_data) ==
    [results_by_email |-> SetItem(by_email, email_hash, result_data),
     results_by_token |->
         IF Given(result_data.token)
         THEN SetItem(by_token, result_data.token, email_hash)
         ELSE by_token]

\* what a lookup returns and leaves behind; raised names the exception
Looked(result, by_email, by_token, raised) ==
    [result |-> result, results_by_email |-> by_email,
     results_by_token |-> by_token, raised |-> raised]

\* lines 80-81
Expired(result, t) == t - result.timestamp > ttl_hours

\* lines 69-87, from the hash on
EmailLookup(by_email, by_token, t, email_hash) ==
    IF email_hash \notin DOMAIN by_email
    THEN Looked(NoResult, by_email, by_token, NoValue)
    ELSE IF Expired(by_email[email_hash], t)
    THEN IF ~Given(by_email[email_hash].token)
         THEN Looked(NoResult, DelItem(by_email, email_hash), by_token, NoValue)
         ELSE IF by_email[email_hash].token \in DOMAIN by_token
         THEN Looked(NoResult, DelItem(by_email, email_hash),
                     DelItem(by_token, by_email[email_hash].token), NoValue)
         ELSE Looked(NoResult, DelItem(by_email, email_hash), by_token,
                     "KeyError")
    ELSE Looked(by_email[email_hash], by_email, by_token, NoValue)

get_result_by_email(by_email, by_token, t, email) ==
    EmailLookup(by_email, by_token, t, _hash_email(email))

\* lines 89-111
get_result_by_token(by_email, by_token, t, token) ==
    IF token \notin DOMAIN by_token
    THEN Looked(NoResult, by_email, by_token, NoValue)
    ELSE IF by_token[token] \notin DOMAIN by_email
    THEN Looked(NoResult, by_email, by_token, NoValue)
    ELSE IF Expired(by_email[by_token[token]], t)
    THEN Looked(NoResult, DelItem(by_email, by_token[token]),
                DelItem(by_token, token), NoValue)
    ELSE Looked(by_email[by_token[token]], by_email, by_token, NoValue)

\* store_result calls of one run, hours the clock is advanced by, and the
\* number of such advances
MaxStores == 2
MaxTicks == 2
TickHours == ttl_hours

\* addresses as visitors type them: the quiz was filled in under the first
\* two, lookups are also made under another spelling of the first and under
\* an address nothing is ever stored for
StoredEmails == {<<" ","A","@","x",".","i","o"," ">>, <<"b","@","x",".","i","o">>}
Emails == StoredEmails \cup {<<"a","@","x",".","i","o">>, <<"c","@","x",".","i","o">>}

\* tokens are Formbricks response ids (line 470): a response belongs to one
\* respondent; "r9" is the id of no response
ResponseIds(email) ==
    IF Strip(Lower(email)) = <<"a","@","x",".","i","o">> THEN {"r1", "r2"} ELSE {"r3"}
Tokens == {"r1", "r2", "r3", "r9"}

\* status and data of the stored results (lines 470, 589-600, 613-618)
Outcomes ==
    {[status |-> "processing", data |-> NoValue],
     [status |-> "completed", data |-> "quiz_output"]}

InitStorage ==
    /\ hq_args = <<>> /\ hq_input = <<>>
    /\ StorageIdle /\ ValidatorIdle /\ EngineUnused

Stored(result_data, stored) ==
    /\ results_by_email' = stored.results_by_email
    /\ results_by_token' = stored.results_by_token
    /\ store_log' = Append(store_log, result_data)

StoreResult ==
    /\ Len(store_log) < MaxStores
    /\ \E email \in StoredEmails, o \in Outcomes :
         \E token \in ResponseIds(email) \cup {NoValue} :
            Stored(ResultData(o.status, o.data, NoValue, now, email, token),
                   store_result(results_by_email, results_by_token,
                                _hash_email(email),
                                ResultData(o.status, o.data, NoValue, now,
                                           email, token)))
    /\ UNCHANGED <<now, reply, background_tasks, hq_vars, v_vars, sc_vars, e_vars>>

Replied(by, key, looked) ==
    /\ reply' = [by |-> by, key |-> key, result |-> looked.result,
                 raised |-> looked.raised]
    /\ results_by_email' = looked.results_by_email
    /\ results_by_token' = looked.results_by_token

GetResultByEmail ==
    /\ \E email \in Emails :
          Replied("email", email,
                  get_result_by_email(results_by_email, results_by_token, now,
                                      email))
    /\ UNCHANGED <<now, store_log, background_tasks, hq_vars, v_vars, sc_vars, e_vars>>

GetResultByToken ==
    /\ \E token \in Tokens :
          Replied("token", token,
                  get_result_by_token(results_by_email, results_by_token, now,
                                      token))
    /\ UNCHANGED <<now, store_log, background_tasks, hq_vars, v_vars, sc_vars, e_vars>>

\* time passes
Tick ==
    /\ now < MaxTicks * TickHours
    /\ now' = now + TickHours
    /\ UNCHANGED <<results_by_email, results_by_token, store_log, reply,
                   background_tasks, hq_vars, v_vars, sc_vars, e_vars>>

NextStorage == StoreResult \/ GetResultByEmail \/ GetResultByToken \/ Tick

SpecStorage == InitStorage /\ [][NextStorage]_vars

-----------------------------------------------------------------------------
\* Properties of the results store

\* two spellings of one address: they differ in letter case and surrounding
\* whitespace only
SameAddress(a, b) == Lower(Strip(a)) = Lower(Strip(b))

\* the store_result calls made so far for an address / with a token
StoresFor(email) ==
    {i \in 1..Len(store_log) : SameAddress(store_log[i].email, email)}
StoresWith(token) ==
    {i \in 1..Len(store_log) : store_log[i].token = token}

Latest(S) == CHOOSE i \in S : \A j \in S : j <= i

SameResult(result, stored) ==
    /\ result # NoResult
    /\ result.status = stored.status
    /\ result.data = stored.data
    /\ result.token = stored.token

\* what the claim promises of a lookup made now for the i-th store_result,
\* the last one of its address
Promised(looked, i) ==
    /\ looked.raised = NoValue
    /\ IF now - store_log[i].timestamp > ttl_hours
       THEN looked.result = NoResult
       ELSE SameResult(looked.result, store_log[i])

-----------------------------------------------------------------------------
\* formbricks_webhook and its background task (web_service.py 327-620)

\* Python None where a str held as a character sequence is expected (a
\* character is a one-letter string, so this is no str)
NoText == <<NoValue>>

\* line 342
IsFinished_Always(event) == TRUE
IsFinished(event) == event = "responseFinished"

\* lines 377-385: choice ids of the primary-area question
PRIMARY_AREA_CHOICES ==
    ("k7ly7nx8lvgwedl1yctb215y" :> "Digestive Health")
    @@ ("xugvsda3meo6onr84icgen6j" :> "Immune Support")

\* a JSON list where a choice id is expected: not hashable, so the test
\* 'value in PRIMARY_AREA_CHOICES' raises TypeError
Unhashable == "[]"

\* lines 410-415
PrimaryArea(value) ==
    IF value \in DOMAIN PRIMARY_AREA_CHOICES
    THEN PRIMARY_AREA_CHOICES[value] ELSE value

\* what the handler returns and leaves behind; stored lists the result data
\* it filed
Handled(response, by_email, by_token, tasks, stored) ==
    [response |-> response, results_by_email |-> by_email,
     results_by_token |-> by_token, background_tasks |-> tasks,
     stored |-> stored]

\* lines 343-344, 458-460, 463-465, 485-489, 491-496
Response(code, status, message) ==
    [code |-> code, status |-> status, message |-> message]

\* lines 473-483
Task(email, health_issue, primary_area, token) ==
    [email |-> email, health_issue |-> health_issue,
     primary_area |-> primary_area, token |-> token]

\* lines 470-489: the submission is filed as processing and queued
Accepted(by_email, by_token, tasks, email, health_issue, primary_area, response_id, result_data) ==
    Handled(Response(200, "accepted", "Health quiz processing started"),
            store_result(by_email, by_token, _hash_email(email),
                         result_data).results_by_email,
            store_result(by_email, by_token, _hash_email(email),
                         result_data).results_by_token,
            Append(tasks, Task(email, health_issue, primary_area, response_id)),
            <<result_data>>)

\* lines 347-489 for the answers of a finished response
ResponseFinished(by_email, by_token, tasks, t, response_id, answers) ==
    IF answers.primary_area = Unhashable
    THEN Handled(Response(500, "error", "TypeError"), by_email, by_token,
                 tasks, <<>>)
    ELSE IF answers.email = NoText \/ answers.email = <<>>
    THEN Handled(Response(200, "error", "Email is required"), by_email,
                 by_token, tasks, <<>>)
    ELSE IF ~Given(answers.health_issue)
    THEN Handled(Response(200, "error",
                          "Health issue description is required"),
                 by_email, by_token, tasks, <<>>)
    ELSE Accepted(by_email, by_token, tasks, answers.email,
                  answers.health_issue, PrimaryArea(answers.primary_area),
                  response_id,
                  ResultData("processing", NoValue, NoValue, t, answers.email,
                             response_id))

NoAnswers == [email |-> NoText, health_issue |-> NoValue, primary_area |-> NoValue]

\* lines 333-496
formbricks_webhook(payload, by_email, by_token, tasks, t) ==
    IF ~payload.is_object
    THEN Handled(Response(500, "error", "AttributeError"), by_email, by_token,
                 tasks, <<>>)
    ELSE IF ~IsFinished(payload.event)
    THEN Handled(Response(200, "ignored", payload.event), by_email, by_token,
                 tasks, <<>>)
    ELSE IF payload.data = "null"
    THEN Handled(Response(500, "error", "AttributeError"), by_email, by_token,
                 tasks, <<>>)
    ELSE IF payload.data = "absent"
    THEN ResponseFinished(by_email, by_token, tasks, t, NoValue, NoAnswers)
    ELSE ResponseFinished(by_email, by_token, tasks, t, payload.id, payload.answers)

\* request bodies: a JSON value that is no object; objects with or without an
\* event, with no data, null data or a response of some answers
Payload(is_object, event, data, id, answers) ==
    [is_object |-> is_object, event |-> event, data |-> data, id |-> id,
     answers |-> answers]

\* answers of respondents who filled in everything but perhaps the primary
\* area, and answers lacking the email, the description or both
Answers ==
    {[email |-> e, health_issue |-> "always tired", primary_area |-> p] :
        e \in StoredEmails,
        p \in {NoValue, "xugvsda3meo6onr84icgen6j", Unhashable}}
    \cup {[email |-> e, health_issue |-> h, primary_area |-> NoValue] :
             e \in {NoText, <<>>, <<"b","@","x",".","i","o">>},
             h \in {NoValue, "", "always tired"}}

\* a response: its id and its answers; an id belongs to one respondent
Responses ==
    {r \in {NoValue, "r1", "r2", "r3"} \X Answers :
        r[2].email \in StoredEmails
          => r[1] \in ResponseIds(r[2].email) \cup {NoValue}}

Payloads ==
    {Payload(FALSE, NoValue, "absent", NoValue, NoAnswers)}
    \cup {Payload(TRUE, event, data, NoValue, NoAnswers) :
             event \in {NoValue, "responseCreated", "responseFinished"},
             data \in {"absent", "null"}}
    \cup {Payload(TRUE, event, "object", r[1], r[2]) :
             event \in {"responseUpdated", "responseFinished"},
             r \in Responses}

InitWebhook == InitStorage

\* accepted submissions of one run
MaxSubmissions == 2

\* the submissions accepted so far: each filed one processing record
Submissions == {i \in 1..Len(store_log) : store_log[i].status = "processing"}

Room == Cardinality(Submissions) < MaxSubmissions

Answered(handled) ==
    /\ handled.response.status = "accepted" => Room
    /\ reply' = [by |-> "webhook", response |-> handled.response]
    /\ results_by_email' = handled.results_by_email
    /\ results_by_token' = handled.results_by_token
    /\ background_tasks' = handled.background_tasks
    /\ store_log' = store_log \o handled.stored

FormbricksWebhook ==
    /\ \E payload \in Payloads :
          Answered(formbricks_webhook(payload, results_by_email,
                                      results_by_token, background_tasks, now))
    /\ UNCHANGED <<now, hq_vars, v_vars, sc_vars, e_vars>>

\* lines 589-600: the task files its results ...
Completed(task, t) ==
    ResultData("completed", "quiz_output", "html_report", t, task.email,
               task.token)

\* ... lines 611-618: or the error that ended it
Failed(task, t) ==
    ResultData("failed", "error", NoValue, t, task.email, task.token)

\* how the quiz processing of a task went: a task without a token raises
\* TypeError at line 510, before the quiz is processed; otherwise lines
\* 513-586 run through or raise (line 544 included)
QuizProcessing(task, succeeds) ==
    IF ~Given(task.token) THEN "not_started"
    ELSE IF succeeds THEN "succeeded" ELSE "raised"

process_health_quiz_webhook_AlwaysFailed(task, t, succeeds) == Failed(task, t)

\* lines 509-618: the one store_result call of the task. Sending the e-mail
\* (lines 603-607) raises nothing: send_health_quiz_results catches every
\* Exception (lines 129-160)
process_health_quiz_webhook(task, t, succeeds) ==
    IF QuizProcessing(task, succeeds) = "succeeded"
    THEN Completed(task, t) ELSE Failed(task, t)

Processed(task, succeeds, result_data) ==
    /\ reply' = [by |-> "task", task |-> task,
                 processing |-> QuizProcessing(task, succeeds)]
    /\ Stored(result_data,
              store_result(results_by_email, results_by_token,
                           _hash_email(task.email), result_data))

\* the queue without its i-th task
Without(tasks, i) ==
    [j \in 1..(Len(tasks) - 1) |-> IF j < i THEN tasks[j] ELSE tasks[j + 1]]

\* lines 506-620: a queued task runs. Every request has a BackgroundTasks of
\* its own, run once its response is sent, so the tasks of two requests run
\* in either order
ProcessHealthQuizWebhook ==
    /\ \E i \in 1..Len(background_tasks), succeeds \in BOOLEAN :
          /\ background_tasks' = Without(background_tasks, i)
          /\ Processed(background_tasks[i], succeeds,
                       process_health_quiz_webhook(background_tasks[i], now,
                                                   succeeds))
    /\ UNCHANGED <<now, hq_vars, v_vars, sc_vars, e_vars>>

\* all of it within the hours results are kept for: expiry is the subject of
\* SpecStorage
NextWebhook ==
    \/ FormbricksWebhook
    \/ ProcessHealthQuizWebhook
    \/ GetResultByEmail
    \/ GetResultByToken

SpecWebhook == InitWebhook /\ [][NextWebhook]_vars

-----------------------------------------------------------------------------
\* Properties of the webhook

\* the cases of a request that is not to be processed
NotFinished(payload) == payload.is_object /\ payload.event # "responseFinished"
LacksEmail(payload) ==
    /\ payload.is_object /\ payload.event = "responseFinished"
    /\ payload.data = "absent" \/ payload.answers.email \in {NoText, <<>>}
LacksHealthIssue(payload) ==
    /\ payload.is_object /\ payload.event = "responseFinished"
    /\ payload.data = "absent" \/ payload.answers.health_issue \in {NoValue, ""}

LeavesAllAsItIs(handled) ==
    /\ handled.results_by_email = results_by_email
    /\ handled.results_by_token = results_by_token
    /\ handled.background_tasks = background_tasks
    /\ handled.stored = <<>>

\* C15: in every state of the service a call whose event is not
\* responseFinished is answered with status ignored, a responseFinished call
\* without an email or without a health-issue description with status error,
\* and each of them leaves the results store as it is and queues no task.
C15_RejectedCallsChangeNothing ==
    \A payload \in Payloads :
        /\ NotFinished(payload) =>
              /\ formbricks_webhook(payload, results_by_email, results_by_token,
                                    background_tasks, now).response.status
                 = "ignored"
              /\ LeavesAllAsItIs(formbricks_webhook(payload, results_by_email,
                                    results_by_token, background_tasks, now))
        /\ LacksEmail(payload) \/ LacksHealthIssue(payload) =>
              /\ formbricks_webhook(payload, results_by_email, results_by_token,
                                    background_tasks, now).response.status
                 = "error"
              /\ LeavesAllAsItIs(formbricks_webhook(payload, results_by_email,
                                    results_by_token, background_tasks, now))

\* a call without an email was answered while a result was on file and its
\* task was waiting
C15_Witness ==
    /\ reply # <<>> /\ reply.by = "webhook"
    /\ reply.response = Response(200, "error", "Email is required")
    /\ Len(store_log) = 1 /\ store_log[1].status = "processing"
    /\ Len(background_tasks) = 1
    /\ DOMAIN results_by_email # {}

-----------------------------------------------------------------------------
\* Properties of the validation report

\* the counters a change to a record increments
ChangeCounters(rep) ==
    rep.corrected_category + rep.corrected_subcategory + rep.invalid_category
    + rep.invalid_subcategory + rep.hierarchy_corrections

\* C21: after any number of validated records the correction log has as many
\* entries as corrected_category + corrected_subcategory + invalid_category
\* + invalid_subcategory + hierarchy_corrections: a record's log entries and
\* its increments of these counters come in pairs, and a record whose slugs
\* are accepted as valid adds neither.
C21_LogEntriesMatchCounters ==
    Len(validation_report.corrections) = ChangeCounters(validation_report)

\* a batch with a record changed twice and a record moved in the hierarchy
C21_Witness ==
    /\ v_pc = "returned"
    /\ Len(validation_report.corrections) = 3
    /\ validation_report.invalid_category = 1
    /\ validation_report.invalid_subcategory = 1
    /\ validation_report.hierarchy_corrections = 1

CategoryCounters(rep) ==
    rep.valid_category + rep.corrected_category + rep.invalid_category
SubcategoryCounters(rep) ==
    rep.valid_subcategory + rep.corrected_subcategory + rep.invalid_subcategory

\* C22 (as claimed): each record increments at most one of the three category
\* counters and at most one of the three subcategory counters, so after the
\* batch each of the two sums is at most total.
C22_CountersBoundedByTotal ==
    v_pc = "returned" =>
        /\ CategoryCounters(validation_report) <= validation_report.total
        /\ SubcategoryCounters(validation_report) <= validation_report.total

\* every valid slug of the taxonomy is a primary or a subcategory slug
TypedOnly == \A s \in taxonomy_slugs : IsPrimarySlug(s) \/ IsSubcategorySlug(s)

\* C24: under a taxonomy whose valid slugs are exactly its primary and
\* subcategory slugs, the output for a record with a non-empty best_slug has
\* a category_slug that is empty or a primary slug and a sub_category_slug
\* that is empty or a subcategory of the output category_slug (so there is no
\* subcategory without a category).
C24_BestSlugOutputWellFormed ==
    \A k \in 1..Len(corrected) :
        (TypedOnly /\ GuessOf(classifications[k]) # <<>>) =>
            /\ \/ corrected[k].category_slug = <<>>
               \/ IsPrimarySlug(corrected[k].category_slug)
            /\ \/ corrected[k].sub_category_slug = <<>>
               \/ IsSubcategoryOf(corrected[k].sub_category_slug,
                                  corrected[k].category_slug)
            /\ corrected[k].sub_category_slug # <<>>
                  => corrected[k].category_slug # <<>>

\* a misspelt subcategory guess was resolved to the subcategory and its parent
C24_Witness ==
    /\ TypedOnly
    /\ Len(corrected) >= 1
    /\ classifications[1].best_slug = w_mood_balanse
    /\ corrected[1].sub_category_slug = s_mood_balance
    /\ corrected[1].category_slug = s_stress_mood

\* C25 (as claimed): the output for a record without best_slug has a
\* category_slug that is empty or a primary slug and a sub_category_slug that
\* is empty or a subcategory slug.
C25_LegacyOutputLevels ==
    \A k \in 1..Len(corrected) :
        GuessOf(classifications[k]) = <<>> =>
            /\ \/ corrected[k].category_slug = <<>>
               \/ IsPrimarySlug(corrected[k].category_slug)
            /\ \/ corrected[k].sub_category_slug = <<>>
               \/ IsSubcategorySlug(corrected[k].sub_category_slug)

\* the record and the log of a second validation of an output record
Revalidated(o) ==
    ValidateOne(o, EmptyReport(1), taxonomy_tree, taxonomy_slugs)

Unchanged(o, again) ==
    /\ again.cc.category_slug = o.category_slug
    /\ again.cc.sub_category_slug = o.sub_category_slug
    /\ again.rep.corrections = <<>>

\* C26 (as claimed): validating an output record again, with its best_slug
\* kept or with its best_slug removed, leaves category_slug and
\* sub_category_slug as they are and appends no correction record.
C26_ValidationIdempotent ==
    \A k \in 1..Len(corrected) :
        /\ Unchanged(corrected[k], Revalidated(corrected[k]))
        /\ Unchanged(corrected[k],
                     Revalidated([corrected[k] EXCEPT !.best_slug = <<>>]))

-----------------------------------------------------------------------------
\* Properties of save_outputs

InCsv(csv, id) == Cardinality({k \in 1..Len(csv) : csv[k].product_id = id})

\* C23 (as claimed): every validated record is in exactly one of the assigned
\* and unassigned sets, it is in the unassigned set exactly when its
\* category_slug is empty after validation, and assigned_count +
\* unassigned_count is the number of records.
C23_UnassignedIffNoCategory ==
    v_pc = "saved" =>
        /\ \A k \in 1..Len(corrected) :
              /\ InCsv(outputs.classifications_csv, corrected[k].product_id)
                 + InCsv(outputs.unassigned_products_csv, corrected[k].product_id)
                 = 1
              /\ InCsv(outputs.unassigned_products_csv, corrected[k].product_id) = 1
                 <=> corrected[k].category_slug = <<>>
        /\ outputs.assigned_count + outputs.unassigned_count = Len(corrected)

-----------------------------------------------------------------------------
\* The quiz input the scorer is handed (health_quiz_models.py 12-46,
\* product_recommendation_engine.py 184-188, 220-227)

\* an area name as the character sequence the scorer compares; None as <<>>,
\* which the scorer's truth tests treat alike
AreaText(area) ==
    IF area = "immune_support" THEN <<"i","m","m","u","n","e","_","s","u","p","p","o","r","t">>
    ELSE IF area = "digestive_health" THEN <<"d","i","g","e","s","t","i","v","e","_","h","e","a","l","t","h">>
    ELSE IF area = "stress_relief" THEN <<"s","t","r","e","s","s","_","r","e","l","i","e","f">>
    ELSE <<>>

\* the attributes of a constructed HealthQuizInput that the scorer reads:
\* quiz_input.primary_health_area and quiz_input.secondary_health_area
ScorerView(self, description) ==
    QuizInput(description, AreaText(self.primary_health_area),
              AreaText(self.secondary_health_area))

\* the area name of a character sequence
AreaName(text) == CHOOSE a \in HealthAreas \cup {NoArea} : AreaText(a) = text

\* C27 (as claimed): a product scored for a quiz input that carries area a in
\* the legacy primary_health_area field gets the score it gets for the quiz
\* input that carries a only in primary_health_areas = [a], all other fields
\* being equal.
C27_ScoreReadsCanonicalList ==
    sc_called =>
        \A a \in HealthAreas :
            sc_quiz = ScorerView(__post_init__(
                          HealthQuizInput(NoList, a,
                              AreaName(sc_quiz.secondary_health_area))),
                          sc_quiz.health_issue_description)
            => sc_score = calculate_relevance_score(sc_product,
                              ScorerView(__post_init__(
                                  HealthQuizInput(ListOf(<<a>>), NoArea,
                                      AreaName(sc_quiz.secondary_health_area))),
                                  sc_quiz.health_issue_description),
                              sc_llm)

-----------------------------------------------------------------------------
\* Properties of the token lookup

\* C29: in every state of the store a lookup by any token t returns None or a
\* record whose token field is t, also after several results were stored for
\* one address under different tokens.
C29_TokenLookupReturnsOwnRecord ==
    \A token \in Tokens :
        \/ get_result_by_token(results_by_email, results_by_token, now,
                               token).result = NoResult
        \/ get_result_by_token(results_by_email, results_by_token, now,
                               token).result.token = token

-----------------------------------------------------------------------------
\* Properties of a submission and its background task

\* the record a visitor finds under an address
OnFile(by_email, by_token, email) ==
    get_result_by_email(by_email, by_token, now, email).result

\* lines 470-483 as the claim states them: the call filed a processing record
\* with the response id as token and queued one task with that token
FiledAsProcessing(payload, handled) ==
    /\ handled.stored # <<>>
    /\ OnFile(handled.results_by_email, handled.results_by_token,
              payload.answers.email) = handled.stored[1]
    /\ handled.stored[1].status = "processing"
    /\ handled.stored[1].token = payload.id
    /\ Len(handled.background_tasks) = Len(background_tasks) + 1
    /\ LastOf(handled.background_tasks).token = payload.id
    /\ LastOf(handled.background_tasks).email = payload.answers.email

\* a record on file says processing only while a task of its submission waits
ProcessingOnlyWhileQueued ==
    \A email \in StoredEmails :
        LET result == OnFile(results_by_email, results_by_token, email)
        IN  result # NoResult /\ result.status = "processing"
            => \E i \in 1..Len(background_tasks) :
                  /\ SameAddress(background_tasks[i].email, email)
                  /\ background_tasks[i].token = result.token

\* lines 589-600, 613-618 as the claim states them
IsOutcome(result) ==
    \/ result.status = "completed" /\ Given(result.html_report)
    \/ result.status = "failed" /\ result.data = "error"

\* a step in which a task ran leaves the outcome of its submission on file
TaskLeavesOutcome ==
    Len(background_tasks') < Len(background_tasks)
    => LET result == get_result_by_email(results_by_email', results_by_token',
                                         now', reply'.task.email).result
       IN  /\ result # NoResult
           /\ result.token = reply'.task.token
           /\ IsOutcome(result)
           /\ reply'.processing = "succeeded" => result.status = "completed"

\* C28: every call the webhook accepts files a processing record with the
\* response id as token for the email and queues the task in the same call,
\* so before the task starts; every step in which a task runs leaves on file
\* a record with that task's token and status completed with an HTML report
\* or failed with an error, completed whenever the quiz processing succeeded;
\* and no record on file says processing unless a task of its submission is
\* still queued.
C28_ProcessingThenOutcome ==
    /\ [](\A payload \in Payloads :
            LET handled == formbricks_webhook(payload, results_by_email,
                               results_by_token, background_tasks, now)
            IN  handled.response.status = "accepted"
                => FiledAsProcessing(payload, handled))
    /\ []ProcessingOnlyWhileQueued
    /\ [][TaskLeavesOutcome]_vars

\* a submission was accepted and filed as processing, and its task ran, the
\* quiz processing succeeded and the report is on file
C28_Witness ==
    /\ Len(store_log) = 2
    /\ store_log[1].status = "processing" /\ store_log[1].token = "r1"
    /\ background_tasks = <<>>
    /\ reply # <<>> /\ reply.by = "task" /\ reply.processing = "succeeded"
    /\ OnFile(results_by_email, results_by_token,
              <<"a","@","x",".","i","o">>) = store_log[2]
    /\ store_log[2].status = "completed" /\ store_log[2].token = "r1"
    /\ Given(store_log[2].html_report)

\* the submissions accepted so far for an address
SubmissionsOf(email) == Submissions \cap StoresFor(email)

\* C30: whenever no task is waiting and several submissions with different
\* tokens were accepted for an address, the record on file for the address
\* carries the token of the last accepted of them and is its outcome, not a
\* processing record and not the outcome of an earlier submission.
C30_LaterSubmissionWins ==
    background_tasks = <<>> =>
        \A email \in StoredEmails :
            /\ Cardinality(SubmissionsOf(email)) >= 2
            /\ \A i, j \in SubmissionsOf(email) :
                  i # j => store_log[i].token # store_log[j].token
            => LET result == OnFile(results_by_email, results_by_token, email)
               IN  /\ result # NoResult
                   /\ result.token = store_log[Latest(SubmissionsOf(email))].token
                   /\ IsOutcome(result)
=============================================================================
